---- MODULE Spec2Model ----
(***************************************************************************)
(* Vector index lifecycle and query serving of the XBRL tag recommender:   *)
(* the job table and the index build pipeline, the index cache with its    *)
(* disk tier, the model registry with the active-model setting, the query  *)
(* path and the cross-encoder reranker.                                    *)
(***************************************************************************)
EXTENDS Integers, Sequences, FiniteSets, TLC

VARIABLES
    jobs,        \* JobsManager._jobs: job id (1..Len) -> JobState
    tasks,       \* the background task of each job: its locals and position
    req,         \* request threads inside the build_index endpoint
    reqLeft,    \* number of job requests still to be issued
    entries,     \* taxonomy_entries table: taxonomy -> rows in insertion order
    known,       \* taxonomies table: the taxonomy names that have a row
    nextEntryId, \* the next autoincrement id of taxonomy_entries
    editsLeft,   \* number of entry-endpoint calls still to come
    cache,       \* IndexCache._cache: taxonomy -> index (NoIndex = no key)
    disk,        \* {index_path}/{taxonomy}/: what the directory holds
    ret,         \* the last index-cache call: operation, arguments, outcome
    embedder,    \* ModelRegistry.embedder
    reranker,    \* ModelRegistry.reranker
    embedDim,    \* VectorstoreService._embed_dim (0 = None)
    embedders,   \* embedders table: id -> [dim, path]
    rerankers,   \* rerankers table: set of ids
    settings,    \* settings table, in updated_at order (last = current)
    del,         \* request threads inside delete_embedder / delete_reranker
    qres,        \* the last query: request, search hits, outcome
    rr,          \* the last rerank call: inputs and output
    heap,        \* the FAISS objects made so far: object id (1..Len) -> content
    cacheAt,     \* IndexCache._cache as references: taxonomy -> object id (0 = no key)
    ops,         \* threads inside an IndexCache call: operation, position, locals
    rel,         \* the thread inside ModelRegistry.load_models_from_path
    runtime      \* {runtime_model_path}/active_embedder, active_reranker:
                 \* the id of the model whose files each holds (0 = empty)

vars == <<jobs, tasks, req, reqLeft, entries, known, nextEntryId, editsLeft,
          cache, disk, ret, embedder, reranker, embedDim,
          embedders, rerankers, settings, del, qres, rr,
          heap, cacheAt, ops, rel, runtime>>

jobVars   == <<jobs, tasks, req, reqLeft>>
dbVars    == <<entries, known, nextEntryId, editsLeft>>
cacheVars == <<cache, disk, ret>>
regVars   == <<embedder, reranker, embedDim>>
modelVars == <<embedders, rerankers, settings, del>>
outVars   == <<qres, rr>>
concVars  == <<heap, cacheAt, ops, rel, runtime>>

----------------------------------------------------------------------------
(* Bounds of the model *)

MaxRequests == 2      \* job requests issued in one run
MaxScanStart == 1     \* rows a scan of the entry table may skip at its start
MaxThreads  == 2      \* request threads of the worker pool
MaxEdits    == 2      \* entry-endpoint calls in one run
MaxBuilds   == 1      \* build requests in a run over the large tables
SmallTable  == 2      \* rows of the small taxonomy at start
LargeTable  == 450    \* rows of the large taxonomy of the build scenario

(* Program constants *)

BATCH == 200

None == "None"

Taxonomies == {"brsr", "esg"}
Names      == Taxonomies \cup {"ghost"}
Threads    == 1..MaxThreads

Min(a, b) == IF a <= b THEN a ELSE b
Max(a, b) == IF a >= b THEN a ELSE b

----------------------------------------------------------------------------
(* Embedding backend and vector index *)

\* SentenceTransformerEmbedder.embed_query / embed_documents: a text becomes a
\* vector whose length is the dimension of the loaded model and whose values
\* depend on the text and on the model.
embed_query(e, text) == [i \in 1..e.dim |-> IF i = 1 THEN text ELSE e.id]

embed_documents(e, texts) == [i \in 1..Len(texts) |-> embed_query(e, texts[i])]

\* ModelRegistry.embedder / .reranker before the first load (Python None).
NoEmbedder == [id |-> 0, dim |-> 0]
NoReranker == [id |-> 0, normalize_method |-> None]

\* No FAISS object (Python None). A FAISS object has the dimension d of its
\* vectors, its documents, and the embedder it was created or loaded with (its
\* embedding_function), which embeds the queries of a search.
NoIndex == [d |-> 0, docs |-> <<>>, emb |-> NoEmbedder]

\* FAISS.save_local writes the vectors and the docstore, not the embedder;
\* FAISS.load_local makes an object of them and the embedder it is given.
NoFiles == [d |-> 0, docs |-> <<>>]
save_local(vs) == [d |-> vs.d, docs |-> vs.docs]
load_local(files, embeddings) == [d |-> files.d, docs |-> files.docs, emb |-> embeddings]

\* No directory of the taxonomy under the index root.
AbsentDir == [kind |-> "absent", index |-> NoFiles]

\* FAISS.from_embeddings: one document per (text, vector, metadata) triple; the
\* index dimension is the length of the first vector.
from_embeddings(texts, vectors, embedding, metas) ==
    [d    |-> Len(vectors[1]),
     docs |-> [i \in 1..Len(texts) |->
                 [tag |-> metas[i].tag, ref |-> metas[i].ref, vec |-> vectors[i]]],
     emb  |-> embedding]

merge_from_replace(vs, other) == other

\* A merge that skips documents whose reference is already indexed.
merge_from_dedup(vs, other) ==
    [vs EXCEPT !.docs = @ \o SelectSeq(other.docs,
                  LAMBDA x : \A i \in 1..Len(vs.docs) : vs.docs[i].ref # x.ref)]

\* FAISS.merge_from: the other index's vectors and documents are appended.
merge_from(vs, other) == [vs EXCEPT !.docs = @ \o other.docs]

----------------------------------------------------------------------------
(* Metadata store: taxonomies and their entries *)

Null == -1    \* a NULL reference column

\* Rows id0+1 .. id0+n; NRefs distinct reference texts, so texts repeat.
MkTable(id0, n) == [i \in 1..n |-> [id |-> id0 + i, ref |-> 1 + (i % 2)]]

\* TaxonomyRepository.get_by_taxonomy: the row of that name, or None.
get_by_taxonomy(name) == IF name \in known THEN name ELSE None

\* The rows of a table as a sequential scan that starts at row start + 1 and
\* wraps around returns them.
ScanFrom(rows, start) ==
    SubSeq(rows, start + 1, Len(rows)) \o SubSeq(rows, 1, start)

\* OFFSET offset LIMIT limit over the rows in the order of one scan.
list_from_scan(t, offset, limit, start) ==
    LET rows == ScanFrom(entries[t], start)
    IN  SubSeq(rows, offset + 1, Min(offset + limit, Len(rows)))

\* A count that leaves out the filter on the taxonomy.
count_all_entries(t) ==
    IF known = {} THEN 0
    ELSE LET n[S \in SUBSET known] ==
                 IF S = {} THEN 0
                 ELSE LET x == CHOOSE y \in S : TRUE IN Len(entries[x]) + n[S \ {x}]
         IN  n[known]

\* TaxonomyEntryRepository.count_by_taxonomy
count_by_taxonomy(t) == IF t \in known THEN Len(entries[t]) ELSE 0

\* TaxonomyEntryRepository.list_by_taxonomy: OFFSET offset LIMIT limit.
list_by_taxonomy(t, offset, limit) ==
    IF t \in known
    THEN SubSeq(entries[t], offset + 1, Min(offset + limit, Len(entries[t])))
    ELSE <<>>

\* TaxonomyService.add_entry: INSERT and commit.
add_entry(t, ref) ==
    /\ editsLeft > 0
    /\ t \in known
    /\ entries' = [entries EXCEPT ![t] = Append(@, [id |-> nextEntryId, ref |-> ref])]
    /\ nextEntryId' = nextEntryId + 1
    /\ editsLeft' = editsLeft - 1
    /\ UNCHANGED <<concVars, known, jobVars, cacheVars, regVars, modelVars, outVars>>

\* TaxonomyService.delete_entry: DELETE the row and commit (404 if absent).
delete_entry(t, i) ==
    /\ editsLeft > 0
    /\ t \in known
    /\ i \in 1..Len(entries[t])
    /\ entries' = [entries EXCEPT ![t] =
                      SubSeq(@, 1, i - 1) \o SubSeq(@, i + 1, Len(@))]
    /\ editsLeft' = editsLeft - 1
    /\ UNCHANGED <<concVars, known, nextEntryId, jobVars, cacheVars, regVars, modelVars, outVars>>

----------------------------------------------------------------------------
(* JobsManager *)

\* JobState(): the dataclass defaults, plus the attributes set() may attach.
JobState == [status |-> "queued", progress |-> 0, total |-> 0, done |-> 0,
             taxonomy |-> None, error |-> None, embedder_id |-> 0, reranker_id |-> 0]

\* setattr(state, k, v) for every item of the payload.
SetAttrs(state, payload) ==
    [k \in DOMAIN state |-> IF k \in DOMAIN payload THEN payload[k] ELSE state[k]]

\* JobsManager.set: create or overwrite under the lock. Job ids are fresh
\* uuid4 values; the model numbers the jobs in creation order.
JobsManager_set(js, job_id, payload) ==
    IF job_id \in DOMAIN js
    THEN [js EXCEPT ![job_id] = SetAttrs(@, payload)]
    ELSE Append(js, SetAttrs(JobState, payload))

\* An update that writes the payload into the first job that is not ended
\* instead of the job of the given id.
JobsManager_update_first(js, job_id, payload) ==
    LET open == {i \in DOMAIN js : js[i].status \in {"queued", "running"}}
    IN  IF open = {} THEN js
        ELSE [js EXCEPT ![CHOOSE i \in open : \A k \in open : i <= k] =
                           SetAttrs(@, payload)]

\* JobsManager.update: only an existing job is changed.
JobsManager_update(js, job_id, payload) ==
    IF job_id \in DOMAIN js
    THEN [js EXCEPT ![job_id] = SetAttrs(@, payload)]
    ELSE js

IsActive(s) == s.status \in {"queued", "running"}

\* A search that takes only running jobs for active.
find_active_running(js, taxonomy) ==
    LET act == {j \in DOMAIN js : js[j].taxonomy = taxonomy /\ js[j].status = "running"}
    IN  IF act = {} THEN 0 ELSE CHOOSE j \in act : \A i \in act : j <= i

\* JobsManager.find_active_for_taxonomy: the first job (dict order) of the
\* taxonomy that is queued or running; 0 when there is none.
find_active_for_taxonomy(js, taxonomy) ==
    LET act == {j \in DOMAIN js : js[j].taxonomy = taxonomy /\ IsActive(js[j])}
    IN  IF act = {} THEN 0 ELSE CHOOSE j \in act : \A i \in act : j <= i

----------------------------------------------------------------------------
(* IndexCache (core/index_cache.py) *)

MaxDocs == 3      \* documents of one index in the index-cache runs

\* The outcome of a call: the cache after it, the index returned (NoIndex for
\* None), the error raised (None for a normal return) and the number of
\* FAISS.load_local calls it made.
Outcome(c, result, error, reads) ==
    [cache |-> c, result |-> result, error |-> error, reads |-> reads]

\* IndexCache.exists_on_disk: the directory exists and holds index.faiss. A
\* directory of kind "corrupt" holds an index.faiss that does not deserialize
\* (no docstore beside it, or a damaged file).
exists_on_disk(taxonomy) == disk[taxonomy].kind \in {"ok", "corrupt"}

exists_in_cache(taxonomy) == cache[taxonomy] # NoIndex

\* IndexCache.disk_indices: every subdirectory of the index root.
disk_indices == {t \in DOMAIN disk : disk[t].kind # "absent"}

\* A load that returns the index read from disk without keeping it.
IndexCache_load_uncached(taxonomy, embeddings, force_reload) ==
    IF ~force_reload /\ exists_in_cache(taxonomy)
    THEN Outcome(cache, cache[taxonomy], None, 0)
    ELSE IF disk[taxonomy].kind = "ok"
    THEN Outcome(cache, load_local(disk[taxonomy].index, embeddings), None, 1)
    ELSE Outcome(cache, NoIndex, "INDEX_NOT_FOUND", 0)

\* IndexCache.load
IndexCache_load(taxonomy, embeddings, force_reload) ==
    IF ~force_reload /\ exists_in_cache(taxonomy)
    THEN Outcome(cache, cache[taxonomy], None, 0)
    ELSE IF disk[taxonomy].kind = "absent"
    THEN Outcome(cache, NoIndex, "INDEX_NOT_FOUND", 0)
    ELSE IF disk[taxonomy].kind = "ok"
    THEN LET vs == load_local(disk[taxonomy].index, embeddings)
         IN  Outcome([cache EXCEPT ![taxonomy] = vs], vs, None, 1)
    ELSE Outcome(cache, NoIndex, "INDEX_NOT_FOUND", 1)

\* A get that, when the load fails, puts an empty index into the cache.
IndexCache_get_autocreate(taxonomy, embeddings) ==
    IF exists_in_cache(taxonomy)
    THEN Outcome(cache, cache[taxonomy], None, 0)
    ELSE LET r == IndexCache_load(taxonomy, embeddings, FALSE)
             empty == [d |-> embeddings.dim, docs |-> <<>>, emb |-> embeddings]
         IN  IF r.error = None THEN r
             ELSE Outcome([cache EXCEPT ![taxonomy] = empty], empty, None, r.reads)

\* IndexCache.get: the cached index; else, with an embedder and index.faiss on
\* disk, the loaded one; a failed load is printed and None is returned.
IndexCache_get(taxonomy, embeddings) ==
    IF exists_in_cache(taxonomy)
    THEN Outcome(cache, cache[taxonomy], None, 0)
    ELSE IF embeddings # NoEmbedder /\ exists_on_disk(taxonomy)
    THEN LET r == IndexCache_load(taxonomy, embeddings, FALSE)
         IN  IF r.error = None THEN r ELSE Outcome(cache, NoIndex, None, r.reads)
    ELSE Outcome(cache, NoIndex, None, 0)

\* What a write of index vs into the directory of a taxonomy leaves behind:
\* everything, or, when mkdir or save_local raises, nothing, the bare
\* directory, or index.faiss without its docstore.
Written(old, vs, written) ==
    CASE written = "all" -> [kind |-> "ok", index |-> save_local(vs)]
      [] written = "nothing" -> old
      [] written = "dir" ->
            IF old.kind = "absent" THEN [kind |-> "dir", index |-> NoFiles] ELSE old
      [] OTHER -> [kind |-> "corrupt", index |-> NoFiles]

\* The ways mkdir followed by save_local can fail.
WriteFailures == {"nothing", "dir", "index.faiss"}

\* The record of a call: its arguments and its Outcome without the cache.
Call(op, taxonomy, embeddings, new_docs, o) ==
    [op |-> op, taxonomy |-> taxonomy, embeddings |-> embeddings,
     new_docs |-> new_docs, result |-> o.result, error |-> o.error,
     reads |-> o.reads]

get(taxonomy, embeddings) ==
    LET o == IndexCache_get(taxonomy, embeddings) IN
    /\ cache' = o.cache
    /\ ret' = Call("get", taxonomy, embeddings, <<>>, o)
    /\ UNCHANGED <<concVars, disk, jobVars, dbVars, regVars, modelVars, outVars>>

\* IndexCache.set
set(taxonomy, index) ==
    /\ cache' = [cache EXCEPT ![taxonomy] = index]
    /\ ret' = Call("set", taxonomy, NoEmbedder, <<>>, Outcome(cache', NoIndex, None, 0))
    /\ UNCHANGED <<concVars, disk, jobVars, dbVars, regVars, modelVars, outVars>>

load(taxonomy, embeddings, force_reload) ==
    LET o == IndexCache_load(taxonomy, embeddings, force_reload) IN
    /\ cache' = o.cache
    /\ ret' = Call(IF force_reload THEN "reload" ELSE "load", taxonomy, embeddings, <<>>, o)
    /\ UNCHANGED <<concVars, disk, jobVars, dbVars, regVars, modelVars, outVars>>

\* IndexCache.save: the given index, else the cached one; ValueError if neither.
save(taxonomy, index, written) ==
    LET target_index == IF index # NoIndex THEN index ELSE cache[taxonomy] IN
    /\ IF target_index = NoIndex
       THEN /\ written = "all"
            /\ ret' = Call("save", taxonomy, NoEmbedder, <<>>, Outcome(cache, NoIndex, "ValueError", 0))
            /\ UNCHANGED disk
       ELSE /\ disk' = [disk EXCEPT ![taxonomy] = Written(@, target_index, written)]
            /\ ret' = Call("save", taxonomy, NoEmbedder, <<>>,
                           Outcome(cache, NoIndex,
                                   IF written = "all" THEN None ELSE "OSError", 0))
    /\ UNCHANGED <<concVars, cache, jobVars, dbVars, regVars, modelVars, outVars>>

\* IndexCache.remove: returns whether a cache entry or a directory was removed.
\* A remove that deletes the directory tree whatever from_disk says.
IndexCache_remove_tree(taxonomy, from_disk) ==
    [cache |-> [cache EXCEPT ![taxonomy] = NoIndex],
     disk |-> [disk EXCEPT ![taxonomy] = AbsentDir],
     removed |-> exists_in_cache(taxonomy) \/ disk[taxonomy].kind # "absent"]

IndexCache_remove(taxonomy, from_disk) ==
    [cache |-> [cache EXCEPT ![taxonomy] = NoIndex],
     disk |-> IF from_disk THEN [disk EXCEPT ![taxonomy] = AbsentDir] ELSE disk,
     removed |-> exists_in_cache(taxonomy)
                    \/ (from_disk /\ disk[taxonomy].kind # "absent")]

remove(taxonomy, from_disk) ==
    LET o == IndexCache_remove(taxonomy, from_disk) IN
    /\ cache' = o.cache
    /\ disk' = o.disk
    /\ ret' = [Call("remove", taxonomy, NoEmbedder, <<>>, Outcome(cache', NoIndex, None, 0))
                 EXCEPT !.error = IF o.removed THEN "True" ELSE "False"]
    /\ UNCHANGED <<concVars, jobVars, dbVars, regVars, modelVars, outVars>>

\* api/v1/taxonomy.py delete_taxonomy: the taxonomy row is deleted (its
\* entries go with it, ON DELETE CASCADE) and committed, then the index is
\* removed from the cache and from the disk. 404 for a taxonomy with no row.
delete_taxonomy(taxonomy) ==
    LET o == IndexCache_remove(taxonomy, TRUE) IN
    /\ taxonomy \in known
    /\ known' = known \ {taxonomy}
    /\ entries' = [entries EXCEPT ![taxonomy] = <<>>]
    /\ cache' = o.cache
    /\ disk' = o.disk
    /\ ret' = [Call("remove", taxonomy, NoEmbedder, <<>>, Outcome(cache', NoIndex, None, 0))
                 EXCEPT !.error = IF o.removed THEN "True" ELSE "False"]
    /\ UNCHANGED <<concVars, nextEntryId, editsLeft, jobVars, regVars, modelVars, outVars>>

\* IndexCache.clear
clear(from_disk) ==
    /\ cache' = [t \in DOMAIN cache |-> NoIndex]
    /\ disk' = IF from_disk THEN [t \in DOMAIN disk |-> AbsentDir] ELSE disk
    /\ ret' = Call(IF from_disk THEN "clear_disk" ELSE "clear", None, NoEmbedder, <<>>,
                   Outcome(cache', NoIndex, None, 0))
    /\ UNCHANGED <<concVars, jobVars, dbVars, regVars, modelVars, outVars>>

\* Lines 150-162 of update: one embed_documents call per new document, a delta
\* index from them, merged into the existing index.
UpdateMerge(existing_index, new_docs, embeddings) ==
    LET texts == [i \in 1..Len(new_docs) |-> new_docs[i].text]
        metas == [i \in 1..Len(new_docs) |->
                     [tag |-> new_docs[i].tag, ref |-> new_docs[i].ref]]
        vectors == [i \in 1..Len(texts) |-> embed_documents(embeddings, <<texts[i]>>)[1]]
    IN  merge_from(existing_index, from_embeddings(texts, vectors, embeddings, metas))

\* IndexCache.update. Without an index in either tier: INDEX_NOT_FOUND. An
\* empty document list makes FAISS.from_embeddings raise, and vectors of
\* another dimension make merge_from raise, before anything is changed. The
\* merged index is put into the cache and then saved.
update(taxonomy, new_docs, embeddings, written) ==
    LET g == IndexCache_get(taxonomy, embeddings)
        merged == UpdateMerge(g.result, new_docs, embeddings)
    IN
    /\ IF g.result = NoIndex
       THEN /\ written = "all"
            /\ cache' = g.cache
            /\ ret' = Call("update", taxonomy, embeddings, new_docs, Outcome(cache, NoIndex, "INDEX_NOT_FOUND", g.reads))
            /\ UNCHANGED disk
       ELSE IF new_docs = <<>> \/ embeddings.dim # g.result.d
       THEN /\ written = "all"
            /\ cache' = g.cache
            /\ ret' = Call("update", taxonomy, embeddings, new_docs,
                           Outcome(cache, NoIndex,
                                   IF new_docs = <<>> THEN "IndexError" ELSE "AssertionError",
                                   g.reads))
            /\ UNCHANGED disk
       ELSE /\ Len(merged.docs) <= MaxDocs
            /\ cache' = [g.cache EXCEPT ![taxonomy] = merged]
            /\ disk' = [disk EXCEPT ![taxonomy] = Written(@, merged, written)]
            /\ ret' = Call("update", taxonomy, embeddings, new_docs,
                           IF written = "all"
                           THEN Outcome(cache, merged, None, g.reads)
                           ELSE Outcome(cache, NoIndex, "OSError", g.reads))
    /\ UNCHANGED <<concVars, jobVars, dbVars, regVars, modelVars, outVars>>

----------------------------------------------------------------------------
(* CrossEncoderReranker (services/model_registry.py) *)

MaxCands == 3     \* candidates of one rerank call
MaxK == 2         \* k of a query, top_k of a rerank call

\* The raw scores CrossEncoder.predict may give a pair.
RawScores == 0..2

\* A score is a fraction num/den with den > 0.
Rat(num, den) == [num |-> num, den |-> den]
Less(a, b) == a.num * b.den < b.num * a.den
Same(a, b) == a.num * b.den = b.num * a.den

\* 1000 * e^x for the exponents that occur, x <= 0.
Exp(x) == CASE x = 0 -> 1000 [] x = -1 -> 368 [] x = -2 -> 135 [] x = -3 -> 50
            [] OTHER -> 18

RECURSIVE Sum(_)
Sum(xs) == IF xs = <<>> THEN 0 ELSE Head(xs) + Sum(Tail(xs))

SeqMax(xs) == CHOOSE m \in {xs[i] : i \in DOMAIN xs} : \A i \in DOMAIN xs : xs[i] <= m
SeqMin(xs) == CHOOSE m \in {xs[i] : i \in DOMAIN xs} : \A i \in DOMAIN xs : m <= xs[i]

\* Lines 50-59 of rerank: the normalized scores of the raw ones.
Normalize(normalize_method, raw) ==
    CASE normalize_method = "softmax" ->
            LET exp_scores == [i \in DOMAIN raw |-> Exp(raw[i] - SeqMax(raw))]
            IN  [i \in DOMAIN raw |-> Rat(exp_scores[i], Sum(exp_scores))]
      [] normalize_method = "sigmoid" ->
            [i \in DOMAIN raw |-> Rat(1000, 1000 + Exp(-raw[i]))]
      [] normalize_method = "minmax" ->
            LET min_s == SeqMin(raw)
                max_s == SeqMax(raw)
            IN  IF max_s # min_s
                THEN [i \in DOMAIN raw |-> Rat(raw[i] - min_s, max_s - min_s)]
                ELSE [i \in DOMAIN raw |-> Rat(1, 2)]
      [] OTHER -> [i \in DOMAIN raw |-> Rat(raw[i], 1)]

\* The number of leading elements of xs whose score is not below that of x
\* (InsertAt) or is above it (InsertAtUnstable).
RECURSIVE InsertAt(_, _)
InsertAt(xs, x) ==
    IF xs = <<>> \/ Less(Head(xs).score, x.score) THEN 0 ELSE 1 + InsertAt(Tail(xs), x)

RECURSIVE InsertAtUnstable(_, _)
InsertAtUnstable(xs, x) ==
    IF xs = <<>> \/ ~Less(x.score, Head(xs).score) THEN 0
    ELSE 1 + InsertAtUnstable(Tail(xs), x)

RECURSIVE sorted_unstable(_)
sorted_unstable(ranked) ==
    IF ranked = <<>> THEN <<>>
    ELSE LET front == sorted_unstable(SubSeq(ranked, 1, Len(ranked) - 1))
             x == ranked[Len(ranked)]
             n == InsertAtUnstable(front, x)
         IN  SubSeq(front, 1, n) \o <<x>> \o SubSeq(front, n + 1, Len(front))

\* sorted(ranked, key=score, reverse=True): descending, and stable, so equal
\* scores stay in their order in ranked.
RECURSIVE sorted_reverse(_)
sorted_reverse(ranked) ==
    IF ranked = <<>> THEN <<>>
    ELSE LET front == sorted_reverse(SubSeq(ranked, 1, Len(ranked) - 1))
             x == ranked[Len(ranked)]
             n == InsertAt(front, x)
         IN  SubSeq(front, 1, n) \o <<x>> \o SubSeq(front, n + 1, Len(front))

\* CrossEncoderReranker.rerank; raw is what model.predict returns for docs.
rerank(normalize_method, docs, raw, top_k) ==
    LET scores == Normalize(normalize_method, raw)
        ranked == [i \in DOMAIN docs |-> [doc |-> docs[i], score |-> scores[i]]]
    IN  SubSeq(sorted_reverse(ranked), 1, Min(top_k, Len(ranked)))

\* One call of rerank on the inputs held in rr.
rerank_call ==
    /\ rr.out = <<>>
    /\ rr' = [rr EXCEPT !.out = rerank(rr.normalize_method,
                                        [i \in DOMAIN rr.raw |-> i], rr.raw, rr.top_k)]
    /\ UNCHANGED <<concVars, jobVars, dbVars, cacheVars, regVars, modelVars, qres>>

----------------------------------------------------------------------------
(* Job endpoints (api/v1/jobs.py) *)

NewTask(kind, target) ==
    [kind |-> kind, pc |-> "start", target |-> target,
     total |-> 0, done |-> 0, offset |-> 0, vs |-> NoIndex]

IdleReq == [pc |-> "idle", taxonomy |-> None,
            resp |-> [message |-> None, job_id |-> 0, status |-> None]]

\* build_index, up to the duplicate check: the embedder must be loaded, then
\* find_active_for_taxonomy takes and releases the lock.
build_index_check(th, taxonomy) ==
    /\ req[th].pc = "idle"
    /\ reqLeft > 0
    /\ reqLeft' = reqLeft - 1
    /\ LET active == find_active_for_taxonomy(jobs, taxonomy) IN
       req' = [req EXCEPT ![th] =
          IF embedder = NoEmbedder
          THEN [IdleReq EXCEPT !.resp.message = "MODEL_NOT_LOADED"]
          ELSE IF active # 0
          THEN [IdleReq EXCEPT !.resp =
                   [message |-> "Build already running for this taxonomy",
                    job_id |-> active, status |-> jobs[active].status]]
          ELSE [pc |-> "insert", taxonomy |-> taxonomy, resp |-> IdleReq.resp]]
    /\ UNCHANGED <<concVars, jobs, tasks, dbVars, cacheVars, regVars, modelVars, outVars>>

\* build_index, from the uuid on: jobs.set takes the lock again, the background
\* task is scheduled and the response is returned.
build_index_set(th) ==
    /\ req[th].pc = "insert"
    /\ LET job_id == Len(jobs) + 1 IN
       /\ jobs' = JobsManager_set(jobs, job_id,
                     [status |-> "queued", progress |-> 0, total |-> 0, done |-> 0,
                      taxonomy |-> req[th].taxonomy])
       /\ tasks' = Append(tasks, NewTask("build", req[th].taxonomy))
       /\ req' = [req EXCEPT ![th] = [IdleReq EXCEPT !.resp =
                     [message |-> "Index build started", job_id |-> job_id,
                      status |-> None]]]
    /\ UNCHANGED <<concVars, reqLeft, dbVars, cacheVars, regVars, modelVars, outVars>>

\* finetune_embedder / finetune_reranker: the job row is created and the
\* background task scheduled in one handler; nothing is checked before.
finetune_embedder(embedder_id) ==
    /\ reqLeft > 0
    /\ reqLeft' = reqLeft - 1
    /\ jobs' = JobsManager_set(jobs, Len(jobs) + 1,
                  [status |-> "queued", progress |-> 0, total |-> 0, done |-> 0,
                   embedder_id |-> embedder_id])
    /\ tasks' = Append(tasks, NewTask("finetune_embedder", embedder_id))
    /\ UNCHANGED <<concVars, req, dbVars, cacheVars, regVars, modelVars, outVars>>

finetune_reranker(reranker_id) ==
    /\ reqLeft > 0
    /\ reqLeft' = reqLeft - 1
    /\ jobs' = JobsManager_set(jobs, Len(jobs) + 1,
                  [status |-> "queued", progress |-> 0, total |-> 0, done |-> 0,
                   reranker_id |-> reranker_id])
    /\ tasks' = Append(tasks, NewTask("finetune_reranker", reranker_id))
    /\ UNCHANGED <<concVars, req, dbVars, cacheVars, regVars, modelVars, outVars>>

----------------------------------------------------------------------------
(* build_index_async (services/job_service.py) *)

\* int(done * 100 / total)
Progress(done, total) == (done * 100) \div total

\* The text and the metadata of one entry: reference or '' (the model's texts
\* carry no surrounding whitespace, so strip() has nothing to remove).
OrEmpty(r) == IF r = Null THEN 0 ELSE r
EntryTexts(es) == [i \in 1..Len(es) |-> OrEmpty(es[i].ref)]
EntryMetas(es) == [i \in 1..Len(es) |-> [tag |-> es[i].id, ref |-> OrEmpty(es[i].ref)]]

IsBuild(j) == j \in DOMAIN tasks /\ tasks[j].kind = "build"

\* Lines 32-45: resolve the taxonomy, count its entries, go to running.
build_index_async_start(j) ==
    /\ IsBuild(j) /\ tasks[j].pc = "start"
    /\ LET taxonomy == tasks[j].target
           t == get_by_taxonomy(taxonomy)
           total == count_by_taxonomy(t)
       IN  IF t = None
           THEN /\ jobs' = JobsManager_update(jobs, j,
                              [status |-> "failed",
                               error |-> "Taxonomy '" \o taxonomy \o "' not found"])
                /\ tasks' = [tasks EXCEPT ![j].pc = "end"]
           ELSE IF total = 0
           THEN /\ jobs' = JobsManager_update(jobs, j,
                              [status |-> "failed",
                               error |-> "No entries found for taxonomy '"
                                         \o taxonomy \o "'"])
                /\ tasks' = [tasks EXCEPT ![j].pc = "end"]
           ELSE /\ jobs' = JobsManager_update(jobs, j,
                              [status |-> "running", total |-> total, done |-> 0,
                               progress |-> 0])
                /\ tasks' = [tasks EXCEPT ![j].pc = "loop", ![j].total = total]
    /\ UNCHANGED <<concVars, req, reqLeft, dbVars, cacheVars, regVars, modelVars, outVars>>

\* Lines 52-86: one round of the while loop. An empty page ends the loop (and
\* fails the job when nothing was indexed); otherwise the page is embedded in
\* one call, indexed and merged, and the job's done/progress are updated.
\* merge_from of indexes of different dimension raises inside FAISS, and so
\* does embed_documents on a registry without embedder: the except clause.
build_index_async_page(j, page) ==
    /\ IsBuild(j) /\ tasks[j].pc = "loop"
    /\ LET tk == tasks[j]
           texts == EntryTexts(page)
           batch_index == from_embeddings(texts, embed_documents(embedder, texts),
                                          embedder, EntryMetas(page))
           done == tk.done + Len(page)
       IN  IF page = <<>>
           THEN IF tk.vs = NoIndex
                THEN /\ jobs' = JobsManager_update(jobs, j,
                                   [status |-> "failed", error |-> "No documents were indexed"])
                     /\ tasks' = [tasks EXCEPT ![j].pc = "end"]
                ELSE /\ tasks' = [tasks EXCEPT ![j].pc = "persist"]
                     /\ UNCHANGED jobs
           ELSE IF embedder = NoEmbedder \/ (tk.vs # NoIndex /\ tk.vs.d # batch_index.d)
           THEN /\ jobs' = JobsManager_update(jobs, j,
                              [status |-> "failed",
                               error |-> "Unexpected error during indexing"])
                /\ tasks' = [tasks EXCEPT ![j].pc = "end"]
           ELSE /\ tasks' = [tasks EXCEPT
                       ![j].vs = IF tk.vs = NoIndex THEN batch_index
                                 ELSE merge_from(tk.vs, batch_index),
                       ![j].done = done,
                       ![j].offset = tk.offset + Len(page)]
                /\ jobs' = JobsManager_update(jobs, j,
                              [done |-> done, progress |-> Progress(done, tk.total)])
    /\ UNCHANGED <<concVars, req, reqLeft, dbVars, cacheVars, regVars, modelVars, outVars>>

\* The round of the loop when the database returns the rows in the order in
\* which they were inserted.
build_index_async_batch(j) ==
    /\ IsBuild(j)
    /\ build_index_async_page(j, list_by_taxonomy(tasks[j].target, tasks[j].offset, BATCH))

\* The round of the loop when the sequential scan of this execution of the
\* query starts at row start + 1 of the table. The query of
\* list_by_taxonomy has no ORDER BY, so each execution returns the rows in
\* the order its own scan produces them.
build_index_async_scan(j, start) ==
    /\ IsBuild(j) /\ tasks[j].target \in known
    /\ start <= Len(entries[tasks[j].target])
    /\ build_index_async_page(j, list_from_scan(tasks[j].target, tasks[j].offset,
                                                 BATCH, start))

\* Lines 88-90: mkdir and vs.save_local write the directory of the taxonomy.
build_index_async_persist(j) ==
    /\ IsBuild(j) /\ tasks[j].pc = "persist"
    /\ disk' = [disk EXCEPT ![tasks[j].target] = Written(@, tasks[j].vs, "all")]
    /\ tasks' = [tasks EXCEPT ![j].pc = "publish"]
    /\ UNCHANGED <<concVars, jobs, req, reqLeft, dbVars, cache, ret, regVars,
                   modelVars, outVars>>

\* A build that goes on to its last statement without the cache write.
build_index_async_unpublished(j) ==
    /\ IsBuild(j) /\ tasks[j].pc = "publish"
    /\ tasks' = [tasks EXCEPT ![j].pc = "complete"]
    /\ UNCHANGED <<concVars, jobs, req, reqLeft, dbVars, cacheVars, regVars,
                   modelVars, outVars>>

\* Line 91: index_cache.set(taxonomy, vs)
build_index_async_publish(j) ==
    /\ IsBuild(j) /\ tasks[j].pc = "publish"
    /\ cache' = [cache EXCEPT ![tasks[j].target] = tasks[j].vs]
    /\ tasks' = [tasks EXCEPT ![j].pc = "complete"]
    /\ UNCHANGED <<concVars, jobs, req, reqLeft, dbVars, disk, ret, regVars,
                   modelVars, outVars>>

\* Line 93: jobs.update(job_id, status="completed", done=done, total=total)
build_index_async_complete(j) ==
    /\ IsBuild(j) /\ tasks[j].pc = "complete"
    /\ jobs' = JobsManager_update(jobs, j,
                  [status |-> "completed", done |-> tasks[j].done,
                   total |-> tasks[j].total])
    /\ tasks' = [tasks EXCEPT ![j].pc = "end"]
    /\ UNCHANGED <<concVars, req, reqLeft, dbVars, cacheVars, regVars, modelVars, outVars>>

\* A build that puts its index into the cache before it writes the disk, so
\* that a failed write leaves the new index cached.
build_index_async_except_cached(j, written) ==
    /\ IsBuild(j) /\ tasks[j].pc \in {"start", "loop", "persist"}
    /\ IF tasks[j].pc = "persist"
       THEN /\ disk' = [disk EXCEPT ![tasks[j].target] = Written(@, tasks[j].vs, written)]
            /\ cache' = [cache EXCEPT ![tasks[j].target] = tasks[j].vs]
       ELSE written = "nothing" /\ disk' = disk /\ cache' = cache
    /\ jobs' = JobsManager_update(jobs, j,
                  [status |-> "failed", error |-> "Unexpected error during indexing"])
    /\ tasks' = [tasks EXCEPT ![j].pc = "end"]
    /\ UNCHANGED <<concVars, req, reqLeft, dbVars, ret, regVars, modelVars, outVars>>

\* Lines 97-100: an exception of a database call, of the embedding call or of
\* the disk write reaches the except clause.
build_index_async_except(j, written) ==
    /\ IsBuild(j) /\ tasks[j].pc \in {"start", "loop", "persist"}
    /\ IF tasks[j].pc = "persist"
       THEN disk' = [disk EXCEPT ![tasks[j].target] = Written(@, tasks[j].vs, written)]
       ELSE written = "nothing" /\ disk' = disk
    /\ jobs' = JobsManager_update(jobs, j,
                  [status |-> "failed", error |-> "Unexpected error during indexing"])
    /\ tasks' = [tasks EXCEPT ![j].pc = "end"]
    /\ UNCHANGED <<concVars, req, reqLeft, dbVars, cache, ret, regVars,
                   modelVars, outVars>>

\* Lines 24-25: get_config() and SessionLocal() run before the try statement
\* of line 26. An exception of either leaves the function through neither the
\* except clause nor the finally clause: no job update is made and the
\* exception reaches the caller of the background task.
build_index_async_raise(j) ==
    /\ IsBuild(j) /\ tasks[j].pc = "start"
    /\ tasks' = [tasks EXCEPT ![j].pc = "raised"]
    /\ UNCHANGED <<concVars, jobs, req, reqLeft, dbVars, cacheVars, regVars, modelVars,
                   outVars>>

----------------------------------------------------------------------------
(* finetune_embedder_async / finetune_reranker_async *)

LiveRow(table, id) == id \in 1..Len(table) /\ table[id].live

\* The whole task: it never reports "running". pos/neg are the numbers of
\* correct and incorrect feedback rows in the date range; raises says whether
\* loading, training or saving throws.
finetune_embedder_async(j, pos, neg, raises) ==
    /\ j \in DOMAIN tasks /\ tasks[j].kind = "finetune_embedder" /\ tasks[j].pc = "start"
    /\ LET id == tasks[j].target IN
       IF ~LiveRow(embedders, id)
       THEN /\ jobs' = JobsManager_update(jobs, j,
                          [status |-> "failed", error |-> "Embedder not found or path missing"])
            /\ UNCHANGED embedders
       ELSE IF pos = 0
       THEN /\ jobs' = JobsManager_update(jobs, j,
                          [status |-> "failed",
                           error |-> "No positive feedback pairs for embedder training."])
            /\ UNCHANGED embedders
       ELSE IF raises
       THEN /\ jobs' = JobsManager_update(jobs, j,
                          [status |-> "failed", error |-> "Unexpected error during finetuning"])
            /\ UNCHANGED embedders
       ELSE /\ embedders' = Append(embedders, [dim |-> embedders[id].dim, live |-> TRUE])
            /\ jobs' = JobsManager_update(jobs, j,
                          [status |-> "completed", done |-> pos, total |-> pos + neg])
    /\ tasks' = [tasks EXCEPT ![j].pc = "end"]
    /\ UNCHANGED <<concVars, req, reqLeft, dbVars, cacheVars, regVars, rerankers, settings, del,
                   outVars>>

finetune_reranker_async(j, pos, neg, raises) ==
    /\ j \in DOMAIN tasks /\ tasks[j].kind = "finetune_reranker" /\ tasks[j].pc = "start"
    /\ LET id == tasks[j].target IN
       IF ~LiveRow(rerankers, id)
       THEN /\ jobs' = JobsManager_update(jobs, j,
                          [status |-> "failed", error |-> "Reranker not found or path missing"])
            /\ UNCHANGED rerankers
       ELSE IF pos + neg = 0
       THEN /\ jobs' = JobsManager_update(jobs, j,
                          [status |-> "failed",
                           error |-> "No feedback pairs for reranker training."])
            /\ UNCHANGED rerankers
       ELSE IF raises
       THEN /\ jobs' = JobsManager_update(jobs, j,
                          [status |-> "failed", error |-> "Unexpected error during finetuning"])
            /\ UNCHANGED rerankers
       ELSE /\ rerankers' = Append(rerankers,
                               [normalize_method |-> "softmax", live |-> TRUE])
            /\ jobs' = JobsManager_update(jobs, j,
                          [status |-> "completed", done |-> pos + neg, total |-> pos + neg])
    /\ tasks' = [tasks EXCEPT ![j].pc = "end"]
    /\ UNCHANGED <<concVars, req, reqLeft, dbVars, cacheVars, regVars, embedders, settings, del,
                   outVars>>

----------------------------------------------------------------------------
(* VectorstoreService (services/vectorstore.py) *)

Refs == {1, 2}    \* reference texts, also the query texts

\* The squared L2 distance FAISS reports as score.
L2(q, v) == Sum([i \in DOMAIN q |-> (q[i] - v[i]) * (q[i] - v[i])])

RECURSIVE NearAt(_, _)
NearAt(xs, x) ==
    IF xs = <<>> \/ x.score < Head(xs).score THEN 0 ELSE 1 + NearAt(Tail(xs), x)

\* The documents by ascending distance, equal distances in index order.
RECURSIVE nearest_first(_)
nearest_first(scored) ==
    IF scored = <<>> THEN <<>>
    ELSE LET front == nearest_first(SubSeq(scored, 1, Len(scored) - 1))
             x == scored[Len(scored)]
             n == NearAt(front, x)
         IN  SubSeq(front, 1, n) \o <<x>> \o SubSeq(front, n + 1, Len(front))

\* FAISS.similarity_search_with_score: the query is embedded with the
\* embedder of the FAISS object; the k nearest (document, distance) pairs.
similarity_search_with_score(vs, text, k) ==
    LET q == embed_query(vs.emb, text)
        scored == [i \in DOMAIN vs.docs |->
                     [doc |-> [tag |-> vs.docs[i].tag, ref |-> vs.docs[i].ref],
                      score |-> L2(q, vs.docs[i].vec)]]
    IN  SubSeq(nearest_first(scored), 1, Min(k, Len(scored)))

\* Results that carry the distance itself as score.
format_search_results_raw(docs_with_scores, use_rerank_score) ==
    [i \in DOMAIN docs_with_scores |->
        [tag |-> docs_with_scores[i].doc.tag,
         reference |-> docs_with_scores[i].doc.ref,
         score |-> IF use_rerank_score THEN docs_with_scores[i].score
                   ELSE Rat(docs_with_scores[i].score, 1),
         rank |-> i]]

\* VectorstoreService._format_search_results
format_search_results(docs_with_scores, use_rerank_score) ==
    [i \in DOMAIN docs_with_scores |->
        [tag |-> docs_with_scores[i].doc.tag,
         reference |-> docs_with_scores[i].doc.ref,
         score |-> IF use_rerank_score THEN docs_with_scores[i].score
                   ELSE Rat(1, 1 + docs_with_scores[i].score),
         rank |-> i]]

\* VectorstoreService._apply_reranking; predict gives the raw score of the
\* cross-encoder for a (query, reference) pair.
apply_reranking(docs_with_scores, predict, normalize_method, top_k) ==
    LET docs_only == [i \in DOMAIN docs_with_scores |-> docs_with_scores[i].doc]
        raw == [i \in DOMAIN docs_only |-> predict[docs_only[i].ref]]
    IN  rerank(normalize_method, docs_only, raw, top_k)

\* The response of a query: the error kind or "ok", the results, and what the
\* handler saw: the dimension d of the index (0 if none), the dimension dim
\* of the vectors of registry.embedder, and the hits of the search.
Response(r, kind, d, hits, results) ==
    [taxonomy |-> r.taxonomy, query |-> r.query, k |-> r.k, rerank |-> r.rerank,
     d |-> d, dim |-> embedder.dim, hits |-> hits, kind |-> kind, results |-> results]

\* api/v1/query.py query with VectorstoreService.query, lines 73-100, and
\* _validate_embedding_compatibility: the probe dimension is computed on the
\* first validation and kept in _embed_dim from then on. A search whose query
\* vector has another length than the index fails inside FAISS. The
\* cross-encoder is only asked when the request wants reranking; with
\* registry.reranker None, _apply_reranking calls rerank on None.
query(r, predict) ==
    LET g == IndexCache_get(r.taxonomy, embedder)
        vectorstore == g.result
        embed_dim == IF embedDim = 0 THEN embedder.dim ELSE embedDim
        k_search == IF r.rerank THEN Max(r.k * 5, r.k) ELSE r.k
        docs_with_scores == similarity_search_with_score(vectorstore, r.query, k_search)
    IN
    /\ ~r.rerank => predict = [x \in Refs |-> 0]
    /\ IF embedder = NoEmbedder
       THEN /\ qres' = Response(r, "MODEL_NOT_LOADED", 0, <<>>, <<>>)
            /\ UNCHANGED <<concVars, cache, embedDim>>
       ELSE IF vectorstore = NoIndex
       THEN /\ qres' = Response(r, "INDEX_NOT_FOUND", 0, <<>>, <<>>)
            /\ cache' = g.cache
            /\ UNCHANGED embedDim
       ELSE IF vectorstore.d # embed_dim
       THEN /\ qres' = Response(r, "DIMENSION_MISMATCH", vectorstore.d, <<>>, <<>>)
            /\ cache' = g.cache
            /\ embedDim' = embed_dim
       ELSE IF vectorstore.emb.dim # vectorstore.d
       THEN /\ qres' = Response(r, "AssertionError", vectorstore.d, <<>>, <<>>)
            /\ cache' = g.cache
            /\ embedDim' = embed_dim
       ELSE IF r.rerank /\ reranker = NoReranker
       THEN /\ qres' = Response(r, "AttributeError", vectorstore.d, docs_with_scores, <<>>)
            /\ cache' = g.cache
            /\ embedDim' = embed_dim
       ELSE /\ qres' = Response(r, "ok", vectorstore.d, docs_with_scores,
                          IF r.rerank
                          THEN format_search_results(
                                  apply_reranking(docs_with_scores, predict,
                                                  reranker.normalize_method, r.k), TRUE)
                          ELSE format_search_results(
                                  SubSeq(docs_with_scores, 1,
                                         Min(r.k, Len(docs_with_scores))), FALSE))
            /\ cache' = g.cache
            /\ embedDim' = embed_dim
    /\ UNCHANGED <<concVars, disk, ret, embedder, reranker, jobVars, dbVars, modelVars, rr>>

----------------------------------------------------------------------------
(* Active models: api/v1/models.py, ModelRegistry, SettingRepository *)

MaxSettings == 2  \* rows of the settings table

\* SettingRepository.get_current: the row with the latest updated_at.
get_current(rows) == rows[Len(rows)]

\* The rows ModelRegistry._download_and_save creates for the base models.
BaseEmbedder == [dim |-> 2, live |-> TRUE]
BaseReranker == [normalize_method |-> "softmax", live |-> TRUE]

\* update_active_models: SettingRepository.set_active adds a settings row; an
\* id of no row violates the foreign key and the request fails with DB_ERROR.
\* 0 stands for null.
update_active_models(embedder_id, reranker_id) ==
    /\ Len(settings) < MaxSettings
    /\ IF /\ embedder_id = 0 \/ LiveRow(embedders, embedder_id)
          /\ reranker_id = 0 \/ LiveRow(rerankers, reranker_id)
       THEN settings' = Append(settings, [active_embedder_id |-> embedder_id,
                                          active_reranker_id |-> reranker_id])
       ELSE UNCHANGED settings
    /\ UNCHANGED <<concVars, embedders, rerankers, del, jobVars, dbVars, cacheVars, regVars, outVars>>

\* VectorstoreService.warm_all_disk_indices: every directory is force-loaded
\* with the embedder just loaded; a failed load or warm-up search is logged.
warm_all_disk_indices(e) ==
    [t \in DOMAIN cache |->
        IF disk[t].kind = "ok" THEN load_local(disk[t].index, e) ELSE cache[t]]

\* utils/copy_dir.py: what dst holds after copy_dir(src, dst). src exists (the
\* caller has checked the path); every item of a non-empty dst is deleted
\* (lines 11-16) and the tree of src is copied into it (line 18).
copy_dir(src, dst) == src

\* reload_models: copy_active_models_to_local_runtime_and_load, then
\* warm_all_disk_indices. If the current setting lacks an embedder or a
\* reranker the base models are downloaded, rows are created for what is
\* missing and written into the current setting; downloaded says whether the
\* download works. The reranker is always loaded with the default "softmax".
\* VectorstoreService._embed_dim is not touched.
reload_models(downloaded) ==
    LET setting == get_current(settings)
        missing == setting.active_embedder_id = 0 \/ setting.active_reranker_id = 0
        embedder_rows == IF setting.active_embedder_id = 0
                         THEN Append(embedders, BaseEmbedder) ELSE embedders
        reranker_rows == IF setting.active_reranker_id = 0
                         THEN Append(rerankers, BaseReranker) ELSE rerankers
        embedder_id == IF setting.active_embedder_id = 0
                       THEN Len(embedder_rows) ELSE setting.active_embedder_id
        reranker_id == IF setting.active_reranker_id = 0
                       THEN Len(reranker_rows) ELSE setting.active_reranker_id
        loaded == [id |-> embedder_id, dim |-> embedder_rows[embedder_id].dim]
    IN
    /\ ~missing => downloaded
    /\ IF missing /\ ~downloaded
       THEN UNCHANGED <<runtime, embedders, rerankers, settings, embedder, reranker, cache>>
       ELSE /\ runtime' = [active_embedder |-> copy_dir(embedder_id, runtime.active_embedder),
                           active_reranker |-> copy_dir(reranker_id, runtime.active_reranker)]
            /\ embedders' = embedder_rows
            /\ rerankers' = reranker_rows
            /\ settings' = [settings EXCEPT ![Len(settings)] =
                              [active_embedder_id |-> embedder_id,
                               active_reranker_id |-> reranker_id]]
            /\ embedder' = loaded
            /\ reranker' = [id |-> reranker_id, normalize_method |-> "softmax"]
            /\ cache' = warm_all_disk_indices(loaded)
    /\ UNCHANGED <<heap, cacheAt, ops, rel, embedDim, disk, ret, del, jobVars, dbVars, outVars>>

\* delete_embedder, lines 160-169: the comparison with the current setting.
delete_embedder_check(th, id) ==
    /\ del[th].pc = "idle"
    /\ del' = [del EXCEPT ![th] =
                 IF get_current(settings).active_embedder_id = id
                 THEN [pc |-> "idle", id |-> id, resp |-> "VALIDATION_ERROR"]
                 ELSE [pc |-> "delete", id |-> id, resp |-> None]]
    /\ UNCHANGED <<concVars, embedders, rerankers, settings, jobVars, dbVars, cacheVars, regVars,
                   outVars>>

\* delete_embedder, lines 171-183: EmbedderService.delete. Deleting the row
\* sets active_embedder_id to null in every settings row that refers to it.
delete_embedder_delete(th) ==
    LET id == del[th].id IN
    /\ del[th].pc = "delete"
    /\ IF LiveRow(embedders, id)
       THEN /\ embedders' = [embedders EXCEPT ![id].live = FALSE]
            /\ settings' = [i \in DOMAIN settings |->
                              IF settings[i].active_embedder_id = id
                              THEN [settings[i] EXCEPT !.active_embedder_id = 0]
                              ELSE settings[i]]
            /\ del' = [del EXCEPT ![th] = [pc |-> "idle", id |-> id, resp |-> "Deleted."]]
       ELSE /\ del' = [del EXCEPT ![th] = [pc |-> "idle", id |-> id, resp |-> "NOT_FOUND"]]
            /\ UNCHANGED <<concVars, embedders, settings>>
    /\ UNCHANGED <<concVars, rerankers, jobVars, dbVars, cacheVars, regVars, outVars>>

\* delete_reranker: the same check; RerankerService.delete then calls
\* self.get, which RerankerService does not have, so every delete that passes
\* that comparison ends in DB_ERROR and no row is removed.
delete_reranker(th, id) ==
    /\ del[th].pc = "idle"
    /\ del' = [del EXCEPT ![th] =
                 [pc |-> "idle", id |-> id,
                  resp |-> IF get_current(settings).active_reranker_id = id
                           THEN "VALIDATION_ERROR" ELSE "DB_ERROR"]]
    /\ UNCHANGED <<concVars, embedders, rerankers, settings, jobVars, dbVars, cacheVars, regVars,
                   outVars>>

----------------------------------------------------------------------------
(* Initial states *)

IdleDel == [pc |-> "idle", id |-> 0, resp |-> None]

NoQuery == [taxonomy |-> None, query |-> 0, k |-> 0, rerank |-> FALSE,
            d |-> 0, dim |-> 0, hits |-> <<>>, kind |-> None, results |-> <<>>]

NoRerank == [normalize_method |-> None, raw |-> <<>>, top_k |-> 0, out |-> <<>>]

NoCall == [op |-> None, taxonomy |-> None, embeddings |-> NoEmbedder,
           new_docs |-> <<>>, result |-> NoIndex, error |-> None, reads |-> 0]

\* Two embedding models of different dimension and two rerankers are
\* registered; the first of each is active and loaded.
InitModels ==
    /\ embedders = <<[dim |-> 2, live |-> TRUE], [dim |-> 3, live |-> TRUE]>>
    /\ rerankers = <<[normalize_method |-> "softmax", live |-> TRUE],
                     [normalize_method |-> "softmax", live |-> TRUE]>>
    /\ settings = <<[active_embedder_id |-> 1, active_reranker_id |-> 1]>>
    /\ del = [th \in Threads |-> IdleDel]

InitRegistry ==
    /\ embedder = [id |-> 1, dim |-> 2]
    /\ reranker = [id |-> 1, normalize_method |-> "softmax"]
    /\ embedDim = 0

InitJobTable(requests) ==
    /\ jobs = <<>>
    /\ tasks = <<>>
    /\ req = [th \in Threads |-> IdleReq]
    /\ reqLeft = requests

InitTables(nBrsr, nEsg, edits) ==
    /\ known = Taxonomies
    /\ entries = [t \in Taxonomies |->
                    IF t = "brsr" THEN MkTable(0, nBrsr) ELSE MkTable(nBrsr, nEsg)]
    /\ nextEntryId = nBrsr + nEsg + 1
    /\ editsLeft = edits

InitEmptyStore ==
    /\ cache = [t \in Names |-> NoIndex]
    /\ disk = [t \in Names |-> AbsentDir]
    /\ ret = NoCall

InitOut ==
    /\ qres = NoQuery
    /\ rr = NoRerank

\* No thread is inside an IndexCache call or a model load.
IdleOp  == [op |-> None, pc |-> "idle", taxonomy |-> None, embeddings |-> NoEmbedder,
            new_docs |-> <<>>, index |-> NoIndex, force_reload |-> FALSE,
            from_disk |-> FALSE, held |-> 0, before |-> AbsentDir,
            result |-> NoIndex, error |-> None]
IdleRel == [pc |-> "idle", embedder |-> NoEmbedder, reranker |-> NoReranker]

EmptyRuntime == [active_embedder |-> 0, active_reranker |-> 0]

InitThreads ==
    /\ heap = <<>>
    /\ cacheAt = [t \in Names |-> 0]
    /\ ops = [th \in Threads |-> IdleOp]
    /\ rel = IdleRel

InitIdle == InitThreads /\ runtime = EmptyRuntime

----------------------------------------------------------------------------------------------------------------------------------------------------
(* The job table, the job endpoints and the background tasks *)

BuildSteps ==
    \/ \E th \in Threads, taxonomy \in Names : build_index_check(th, taxonomy)
    \/ \E th \in Threads : build_index_set(th)
    \/ \E j \in DOMAIN tasks : build_index_async_start(j)
    \/ \E j \in DOMAIN tasks : build_index_async_batch(j)
    \/ \E j \in DOMAIN tasks : build_index_async_persist(j)
    \/ \E j \in DOMAIN tasks : build_index_async_publish(j)
    \/ \E j \in DOMAIN tasks : build_index_async_complete(j)

InitJobs ==
    /\ InitJobTable(MaxRequests) /\ InitTables(SmallTable, 0, 0) /\ InitEmptyStore
    /\ InitRegistry /\ InitModels /\ InitOut /\ InitIdle

NextJobs ==
    \/ BuildSteps
    \/ \E id \in {1, 3} : finetune_embedder(id)
    \/ \E id \in {1, 3} : finetune_reranker(id)
    \/ \E j \in DOMAIN tasks, written \in WriteFailures :
          build_index_async_except(j, written)
    \/ \E j \in DOMAIN tasks, pos \in 0..1, neg \in 0..1, raises \in BOOLEAN :
          finetune_embedder_async(j, pos, neg, raises)
    \/ \E j \in DOMAIN tasks, pos \in 0..1, neg \in 0..1, raises \in BOOLEAN :
          finetune_reranker_async(j, pos, neg, raises)

SpecJobs == InitJobs /\ [][NextJobs]_vars

----------------------------------------------------------------------------
(* Builds whose background task can fail at every statement, the two
   statements before the try included *)

NextBoundary ==
    \/ BuildSteps
    \/ \E j \in DOMAIN tasks, written \in WriteFailures :
          build_index_async_except(j, written)
    \/ \E j \in DOMAIN tasks : build_index_async_raise(j)

SpecBoundary == InitJobs /\ [][NextBoundary]_vars

\* The thread pool of the background tasks runs a started task until the
\* function returns or raises: a task that can take a step takes one.
TaskStep(j) ==
    \/ build_index_async_start(j)
    \/ build_index_async_batch(j)
    \/ build_index_async_persist(j)
    \/ build_index_async_publish(j)
    \/ build_index_async_complete(j)
    \/ build_index_async_raise(j)

FairBoundary ==
    InitJobs /\ [][NextBoundary]_vars /\ \A j \in 1..MaxRequests : WF_vars(TaskStep(j))

----------------------------------------------------------------------------
(* Builds whose pages come from scans that start anywhere in the first
   MaxScanStart + 1 rows of the table *)

InitScan ==
    /\ InitJobTable(MaxRequests)
    /\ \E nBrsr \in {SmallTable, BATCH, BATCH + 1} : InitTables(nBrsr, 1, 0)
    /\ InitEmptyStore /\ InitRegistry /\ InitModels /\ InitOut /\ InitIdle

NextScan ==
    \/ \E th \in Threads, taxonomy \in Names : build_index_check(th, taxonomy)
    \/ \E th \in Threads : build_index_set(th)
    \/ \E j \in DOMAIN tasks : build_index_async_start(j)
    \/ \E j \in DOMAIN tasks, start \in 0..MaxScanStart : build_index_async_scan(j, start)
    \/ \E j \in DOMAIN tasks : build_index_async_persist(j)
    \/ \E j \in DOMAIN tasks : build_index_async_publish(j)
    \/ \E j \in DOMAIN tasks : build_index_async_complete(j)

SpecScan == InitScan /\ [][NextScan]_vars

----------------------------------------------------------------------------
(* Builds of two taxonomies that both have entries, side by side, with
   failures of the disk write *)

InitPair ==
    /\ InitJobTable(2)
    /\ \E nEsg \in {1, BATCH + 1} : InitTables(SmallTable, nEsg, 0)
    /\ InitEmptyStore /\ InitRegistry /\ InitModels /\ InitOut /\ InitIdle

NextPair ==
    \/ BuildSteps
    \/ \E j \in DOMAIN tasks, written \in WriteFailures :
          build_index_async_except(j, written)

SpecPair == InitPair /\ [][NextPair]_vars

----------------------------------------------------------------------------
(* One build at a time while the entry endpoints change the taxonomy *)

InitEntries ==
    /\ InitJobTable(1) /\ InitTables(SmallTable, 0, MaxEdits) /\ InitEmptyStore
    /\ InitRegistry /\ InitModels /\ InitOut /\ InitIdle

NextEntries ==
    \/ BuildSteps
    \/ \E t \in Taxonomies, ref \in {Null, 1} : add_entry(t, ref)
    \/ \E t \in Taxonomies, i \in 1..SmallTable + MaxEdits : delete_entry(t, i)

SpecEntries == InitEntries /\ [][NextEntries]_vars

----------------------------------------------------------------------------
(* Builds over unchanging taxonomies, with no failure of the embedder, the
   database or the disk *)

InitBuild ==
    /\ InitJobTable(MaxBuilds)
    /\ \E nBrsr \in {1, LargeTable}, nEsg \in {0, BATCH, BATCH + 1} :
          InitTables(nBrsr, nEsg, 0)
    /\ InitEmptyStore /\ InitRegistry /\ InitModels /\ InitOut /\ InitIdle

SpecBuild == InitBuild /\ [][BuildSteps]_vars

----------------------------------------------------------------------------
(* Properties of the job table and of the build pipeline *)

ActiveJobs(taxonomy) ==
    {j \in DOMAIN jobs : jobs[j].taxonomy = taxonomy /\ IsActive(jobs[j])}

\* C1: at any time at most one job of a taxonomy is queued or running, whatever
\* the interleaving of the build_index requests.
C1_AtMostOneActiveBuild ==
    \A taxonomy \in Names : Cardinality(ActiveJobs(taxonomy)) <= 1

EntryIds(t) == [i \in 1..Len(entries[t]) |-> entries[t][i].id]
IndexTags(vs) == [i \in 1..Len(vs.docs) |-> vs.docs[i].tag]

C4_Step(j) ==
    LET t == jobs[j].taxonomy
        old == jobs[j]
        new == jobs'[j]
    IN  (t \in known /\ Len(entries[t]) > 0) =>
          /\ new.progress >= old.progress
          /\ new.status # old.status =>
                <<old.status, new.status>> \in
                    {<<"queued", "running">>, <<"running", "completed">>}
          /\ (old.status = "running" /\ new.status = "completed") =>
                /\ new.progress = 100
                /\ new.done = Len(entries[t]) /\ new.total = Len(entries[t])
                /\ cache'[t].d = embedder.dim /\ IndexTags(cache'[t]) = EntryIds(t)
                /\ disk'[t].kind = "ok" /\ disk'[t].index = save_local(cache'[t])
          /\ tasks'[j].pc = "end" => new.status = "completed"

\* C4: the job of a build over a taxonomy of N > 0 entries goes queued ->
\* running -> completed, and is completed when its task has ended; its
\* progress never decreases; when it completes, progress = 100, done = total
\* = N, and the index on disk and in the cache holds exactly the N entries.
C4_BuildEndToEnd == [][\A j \in DOMAIN jobs : C4_Step(j)]_vars

\* C4 witness: the 450-entry build has completed in three batches.
C4_Witness ==
    \E j \in DOMAIN jobs :
       /\ jobs[j].status = "completed" /\ jobs[j].taxonomy = "brsr"
       /\ jobs[j].done = LargeTable /\ Len(cache["brsr"].docs) = LargeTable

\* C8: a job's status only moves queued -> running -> completed,
\* queued -> running -> failed or queued -> failed, and a completed or failed
\* job keeps its status.
C8_StatusTransitions ==
    [][\A j \in DOMAIN jobs :
          jobs'[j].status # jobs[j].status =>
             <<jobs[j].status, jobs'[j].status>> \in
                 {<<"queued", "running">>, <<"running", "completed">>,
                  <<"running", "failed">>, <<"queued", "failed">>}]_vars

\* C9: progress of a build job is in 0..100 and 0 <= done <= total in every
\* reachable state, also when entries are added or deleted during the build.
C9_ProgressAndDoneInRange ==
    \A j \in DOMAIN jobs :
       /\ jobs[j].progress \in 0..100
       /\ 0 <= jobs[j].done /\ jobs[j].done <= jobs[j].total

----------------------------------------------------------------------------
(* The index cache driven through its public operations *)

Doc(tag, ref, e) == [tag |-> tag, ref |-> ref, vec |-> embed_query(e, ref)]

\* The files of an index built earlier with the loaded embedder, and an index
\* to be set.
StoredIndex == [d |-> 2, docs |-> <<Doc(1, 2, [id |-> 1, dim |-> 2])>>]
OtherIndex  == [d |-> 2, docs |-> <<Doc(3, 2, [id |-> 1, dim |-> 2]),
                                    Doc(4, 1, [id |-> 1, dim |-> 2]),
                                    Doc(5, 2, [id |-> 1, dim |-> 2])>>,
                emb |-> [id |-> 1, dim |-> 2]]

\* New documents for update: none, one, or two with the same reference text.
NewDocs == {<<>>, <<[text |-> 2, tag |-> 7, ref |-> 2]>>,
            <<[text |-> 2, tag |-> 8, ref |-> 2], [text |-> 2, tag |-> 9, ref |-> 2]>>}

InitCache ==
    /\ cache = [t \in Names |-> NoIndex]
    /\ disk \in {[t \in Names |-> IF t = "brsr" THEN [kind |-> "ok", index |-> StoredIndex]
                                  ELSE IF t = "esg" THEN k ELSE AbsentDir] :
                    k \in {AbsentDir, [kind |-> "corrupt", index |-> NoFiles]}}
    /\ ret = NoCall
    /\ InitJobTable(0) /\ InitTables(SmallTable, 0, 0)
    /\ InitRegistry /\ InitModels /\ InitOut /\ InitIdle

NextCache ==
    \/ \E t \in Taxonomies, e \in {embedder, NoEmbedder} : get(t, e)
    \/ \E t \in Taxonomies : set(t, OtherIndex)
    \/ \E t \in Taxonomies, force_reload \in BOOLEAN : load(t, embedder, force_reload)
    \/ \E t \in Taxonomies, index \in {NoIndex, OtherIndex},
          written \in WriteFailures \cup {"all"} : save(t, index, written)
    \/ \E t \in Taxonomies, from_disk \in BOOLEAN : remove(t, from_disk)
    \/ \E from_disk \in BOOLEAN : clear(from_disk)
    \/ \E t \in Taxonomies, new_docs \in NewDocs, e \in {embedder, [id |-> 2, dim |-> 3]},
          written \in WriteFailures \cup {"all"} : update(t, new_docs, e, written)

SpecCache == InitCache /\ [][NextCache]_vars

\* What a direct FAISS.load_local of the directory of taxonomy t returns.
DiskLoad(t, embeddings) == load_local(disk[t].index, embeddings)

\* C3 as stated: whenever index.faiss is in the directory of a taxonomy that is
\* not cached, get(taxonomy, embedder) stores the index in the cache and
\* returns what a direct disk load returns.
C3_GetLoadsWhenIndexFileExists ==
    [][\A t \in Names :
          (ret'.op = "get" /\ ret'.taxonomy = t /\ ret'.embeddings # NoEmbedder
             /\ ~exists_in_cache(t) /\ exists_on_disk(t))
          => (cache'[t] # NoIndex /\ ret'.result = cache'[t])]_vars

\* C3 amended: if the directory of an uncached taxonomy holds an index that
\* deserializes, get(taxonomy, embedder) reads it once, stores it in the cache
\* and returns the content of a direct disk load; a get of a cached taxonomy
\* returns the cached index without reading the disk and leaves the cache
\* alone; and only remove and clear take a taxonomy out of the cache.
C3_CacheThenDisk ==
    [][\A t \in Names :
          /\ (ret'.op = "get" /\ ret'.taxonomy = t /\ ret'.embeddings # NoEmbedder
                /\ ~exists_in_cache(t) /\ disk[t].kind = "ok")
             => /\ cache' = [cache EXCEPT ![t] = DiskLoad(t, ret'.embeddings)]
                /\ ret'.result = DiskLoad(t, ret'.embeddings)
                /\ ret'.error = None
                /\ ret'.reads = 1
          /\ (ret'.op = "get" /\ ret'.taxonomy = t /\ exists_in_cache(t))
             => /\ ret'.result = cache[t]
                /\ ret'.reads = 0
                /\ cache' = cache
          /\ (exists_in_cache(t) /\ ret'.op \notin {"remove", "clear", "clear_disk"})
             => cache'[t] # NoIndex]_vars

\* The first get of a stored, uncached index has just loaded it.
C3_Witness ==
    /\ ret.op = "get" /\ ret.reads = 1 /\ ret.taxonomy = "brsr"
    /\ ret.result = load_local(StoredIndex, embedder) /\ cache["brsr"] = ret.result

\* The entries update appends for its new documents.
Appended(new_docs, e) ==
    [i \in 1..Len(new_docs) |->
        [tag |-> new_docs[i].tag, ref |-> new_docs[i].ref,
         vec |-> embed_query(e, new_docs[i].text)]]

\* The index update works on: the cached one, else the one on disk.
ExistingIndex(t, embeddings) ==
    IF exists_in_cache(t) THEN cache[t] ELSE DiskLoad(t, embeddings)

\* C5: an update that returns has appended one entry per new document, in
\* order and without deduplication, to the n entries of the existing index:
\* the returned index, which is also the cached and the saved one, has n + m
\* entries, and no other taxonomy is touched.
C5_UpdateAppends ==
    [][\A t \in Names :
          (ret'.op = "update" /\ ret'.taxonomy = t /\ ret'.error = None)
          => /\ ret'.result.docs
                   = ExistingIndex(t, ret'.embeddings).docs
                        \o Appended(ret'.new_docs, ret'.embeddings)
             /\ Len(ret'.result.docs)
                   = Len(ExistingIndex(t, ret'.embeddings).docs) + Len(ret'.new_docs)
             /\ cache'[t] = ret'.result
             /\ disk'[t] = [kind |-> "ok", index |-> save_local(ret'.result)]
             /\ \A u \in Names \ {t} : cache'[u] = cache[u] /\ disk'[u] = disk[u]]_vars

\* Two new documents with the same reference text are both in the index.
C5_Witness ==
    /\ ret.op = "update" /\ ret.error = None /\ Len(ret.new_docs) = 2
    /\ ret.new_docs[1].ref = ret.new_docs[2].ref
    /\ LET docs == ret.result.docs IN
       /\ Len(docs) = 3
       /\ docs[2].ref = docs[3].ref /\ docs[2].tag # docs[3].tag
       /\ docs[1].ref = docs[2].ref

----------------------------------------------------------------------------
(* rerank as a function of its inputs *)

Methods == {"softmax", "sigmoid", "minmax", "none"}

InitRerank ==
    /\ \E normalize_method \in Methods, n \in 1..MaxCands, top_k \in 1..MaxK :
          \E raw \in [1..n -> RawScores] :
             rr = [normalize_method |-> normalize_method, raw |-> raw,
                   top_k |-> top_k, out |-> <<>>]
    /\ qres = NoQuery /\ InitIdle
    /\ cache = [t \in Names |-> NoIndex]
    /\ disk = [t \in Names |-> AbsentDir]
    /\ ret = NoCall
    /\ InitJobTable(0) /\ InitTables(SmallTable, 0, 0)
    /\ InitRegistry /\ InitModels

SpecRerank == InitRerank /\ [][rerank_call]_vars

\* C6: rerank returns min(K, n) pairs, each a candidate with its normalized
\* score, in descending order of score, candidates of equal score in their
\* original order.
C6_RerankTopK ==
    rr.out # <<>> =>
        LET out == rr.out
            scores == Normalize(rr.normalize_method, rr.raw)
        IN  /\ Len(out) = Min(rr.top_k, Len(rr.raw))
            /\ \A i \in DOMAIN out :
                  out[i].doc \in DOMAIN rr.raw /\ out[i].score = scores[out[i].doc]
            /\ \A i, j \in DOMAIN out :
                  i < j => /\ ~Less(out[i].score, out[j].score)
                           /\ Same(out[i].score, out[j].score) => out[i].doc < out[j].doc
            /\ \A c \in DOMAIN rr.raw :
                  (\A i \in DOMAIN out : out[i].doc # c)
                  => \A i \in DOMAIN out :
                        \/ Less(scores[c], out[i].score)
                        \/ Same(scores[c], out[i].score) /\ out[i].doc < c

\* Three candidates, the last two of equal score above the first, top_k = 2:
\* the tie is returned in candidate order.
C6_Witness ==
    /\ Len(rr.raw) = 3 /\ rr.top_k = 2 /\ Len(rr.out) = 2
    /\ rr.raw[2] = rr.raw[3] /\ rr.raw[1] < rr.raw[2]
    /\ rr.out[1].doc = 2 /\ rr.out[2].doc = 3

----------------------------------------------------------------------------
(* Queries, model switches and reloads *)

\* brsr was indexed with embedder 1, esg with embedder 2; a third directory
\* is absent or holds an index.faiss that does not deserialize. Start-up has
\* loaded embedder 1 and warmed the directories with it.
BrsrFiles == [d |-> 2, docs |-> <<Doc(1, 1, [id |-> 1, dim |-> 2]),
                                  Doc(2, 2, [id |-> 1, dim |-> 2]),
                                  Doc(3, 1, [id |-> 1, dim |-> 2])>>]
EsgFiles  == [d |-> 3, docs |-> <<Doc(4, 2, [id |-> 2, dim |-> 3])>>]

Requests ==
    [taxonomy : Names, query : Refs, k : 1..MaxK, rerank : BOOLEAN]

\* Cross-encoders that favour no reference text, or one of them.
Predictions == {[x \in Refs |-> IF x = high THEN 2 ELSE 0] : high \in Refs \cup {0}}

InitQuery ==
    /\ \E ghost \in {AbsentDir, [kind |-> "corrupt", index |-> NoFiles]} :
          disk = [t \in Names |->
                    IF t = "brsr" THEN [kind |-> "ok", index |-> BrsrFiles]
                    ELSE IF t = "esg" THEN [kind |-> "ok", index |-> EsgFiles]
                    ELSE ghost]
    /\ InitRegistry /\ InitModels
    /\ cache = [t \in Names |-> IF disk[t].kind = "ok"
                                 THEN load_local(disk[t].index, embedder) ELSE NoIndex]
    /\ ret = NoCall
    /\ InitJobTable(0) /\ InitTables(SmallTable, 0, 0)
    /\ InitOut /\ InitIdle

NextQuery ==
    \/ \E r \in Requests, predict \in Predictions : query(r, predict)
    \/ \E embedder_id \in 0..3, reranker_id \in 1..2 :
          update_active_models(embedder_id, reranker_id)
    \/ \E downloaded \in BOOLEAN : reload_models(downloaded)

SpecQuery == InitQuery /\ [][NextQuery]_vars

\* C2: a query of an index whose dimension differs from that of the vectors
\* of the active embedder is answered with DIMENSION_MISMATCH and no results.
C2_MismatchRaisesDimensionMismatch ==
    (qres.kind # None /\ qres.d # 0 /\ qres.d # qres.dim)
    => (qres.kind = "DIMENSION_MISMATCH" /\ qres.results = <<>>)

\* C7: without reranking the results are the first min(k, hits) hits in
\* nearest-first order, ranked 1, 2, ..., each with score 1/(1+distance), so
\* the score does not increase with the rank.
C7_PlainResults ==
    (qres.kind = "ok" /\ ~qres.rerank) =>
        LET results == qres.results
            hits == qres.hits
        IN  /\ Len(results) = Min(qres.k, Len(hits))
            /\ \A i \in DOMAIN results :
                  /\ results[i].rank = i
                  /\ results[i].tag = hits[i].doc.tag
                  /\ results[i].reference = hits[i].doc.ref
                  /\ results[i].score = Rat(1, 1 + hits[i].score)
            /\ \A i, j \in DOMAIN results :
                  i < j => /\ hits[i].score <= hits[j].score
                           /\ ~Less(results[i].score, results[j].score)

\* A plain query with k = 2 that returned two hits of different distance.
C7_Witness ==
    /\ qres.kind = "ok" /\ ~qres.rerank /\ qres.k = 2 /\ Len(qres.results) = 2
    /\ qres.hits[1].score < qres.hits[2].score
    /\ Less(qres.results[2].score, qres.results[1].score)

----------------------------------------------------------------------------
(* Model rows: switching the active models and deleting models *)

InitModelRows ==
    /\ InitModels /\ InitRegistry
    /\ cache = [t \in Names |-> NoIndex]
    /\ disk = [t \in Names |-> AbsentDir]
    /\ ret = NoCall
    /\ InitJobTable(0) /\ InitTables(SmallTable, 0, 0)
    /\ InitOut /\ InitIdle

NextModels ==
    \/ \E embedder_id \in 0..3, reranker_id \in 0..2 :
          update_active_models(embedder_id, reranker_id)
    \/ \E th \in Threads, id \in 1..3 : delete_embedder_check(th, id)
    \/ \E th \in Threads : delete_embedder_delete(th)
    \/ \E th \in Threads, id \in 1..3 : delete_reranker(th, id)
    \/ \E downloaded \in BOOLEAN : reload_models(downloaded)

SpecModels == InitModelRows /\ [][NextModels]_vars

\* C10: no step removes the embedder or the reranker that the current setting
\* points to.
C10_ActiveModelNeverDeleted ==
    [][/\ \A id \in DOMAIN embedders :
             (embedders[id].live /\ ~embedders'[id].live)
             => get_current(settings).active_embedder_id # id
       /\ \A id \in DOMAIN rerankers :
             (rerankers[id].live /\ ~rerankers'[id].live)
             => get_current(settings).active_reranker_id # id]_vars

----------------------------------------------------------------------------
(* IndexCache called from several threads: each call as the steps it takes.
   IndexCache has no lock; the cache holds references to FAISS objects. *)

restVars == <<rel, runtime, ret, jobVars, dbVars, regVars, modelVars, outVars>>

\* The cache by content: what is behind each reference.
CacheView(h, at) == [t \in Names |-> IF at[t] = 0 THEN NoIndex ELSE h[at[t]]]

\* The call of thread record o returns reference held, whose object holds
\* content at that moment, or raises error.
Return(o, held, content, error) ==
    [o EXCEPT !.pc = "done", !.held = held, !.result = content, !.error = error]

\* The caller of load has its index: get and load return it, update goes on
\* to merge into it.
Loaded(o, held, content) ==
    IF o.op = "update" THEN [o EXCEPT !.pc = "merge", !.held = held]
    ELSE Return(o, held, content, None)

\* load failed, or get found nothing: get returns None, load and update raise.
NotLoaded(o) ==
    Return(o, 0, NoIndex, IF o.op = "get" THEN None ELSE "INDEX_NOT_FOUND")

\* get, lines 34-45, and the get inside update, line 141: a cached reference
\* is returned as it is; otherwise, with an embedder and index.faiss, load.
Lookup(o) ==
    LET t == o.taxonomy IN
    IF cacheAt[t] # 0 THEN Loaded(o, cacheAt[t], heap[cacheAt[t]])
    ELSE IF o.embeddings # NoEmbedder /\ exists_on_disk(t) THEN [o EXCEPT !.pc = "load"]
    ELSE NotLoaded(o)

get_begin(th, taxonomy, embeddings) ==
    /\ ops[th].pc = "idle"
    /\ ops' = [ops EXCEPT ![th] = Lookup([IdleOp EXCEPT !.op = "get",
                     !.taxonomy = taxonomy, !.embeddings = embeddings])]
    /\ UNCHANGED <<heap, cacheAt, cache, disk, restVars>>

update_begin(th, taxonomy, new_docs, embeddings) ==
    /\ ops[th].pc = "idle"
    /\ ops' = [ops EXCEPT ![th] = Lookup([IdleOp EXCEPT !.op = "update",
                     !.taxonomy = taxonomy, !.new_docs = new_docs,
                     !.embeddings = embeddings])]
    /\ UNCHANGED <<heap, cacheAt, cache, disk, restVars>>

\* load(taxonomy, embeddings, force_reload=True)
load_begin(th, taxonomy, embeddings) ==
    /\ ops[th].pc = "idle"
    /\ ops' = [ops EXCEPT ![th] = [IdleOp EXCEPT !.op = "load", !.pc = "load",
                     !.taxonomy = taxonomy, !.embeddings = embeddings,
                     !.force_reload = TRUE]]
    /\ UNCHANGED <<heap, cacheAt, cache, disk, restVars>>

\* load, lines 55-70: the cached reference unless forced; else the directory
\* is read by FAISS.load_local into a new object.
load_read(th) ==
    LET o == ops[th]
        t == o.taxonomy
    IN
    /\ o.pc = "load"
    /\ IF ~o.force_reload /\ cacheAt[t] # 0
       THEN /\ ops' = [ops EXCEPT ![th] = Loaded(o, cacheAt[t], heap[cacheAt[t]])]
            /\ UNCHANGED heap
       ELSE IF disk[t].kind = "ok"
       THEN /\ heap' = Append(heap, load_local(disk[t].index, o.embeddings))
            /\ ops' = [ops EXCEPT ![th] = [o EXCEPT !.pc = "store", !.held = Len(heap')]]
       ELSE /\ ops' = [ops EXCEPT ![th] = NotLoaded(o)]
            /\ UNCHANGED heap
    /\ UNCHANGED <<cacheAt, cache, disk, restVars>>

\* load, lines 71-72: self._cache[taxonomy] = index; return index
load_store(th) ==
    LET o == ops[th] IN
    /\ o.pc = "store"
    /\ cacheAt' = [cacheAt EXCEPT ![o.taxonomy] = o.held]
    /\ cache' = CacheView(heap, cacheAt')
    /\ ops' = [ops EXCEPT ![th] = Loaded(o, o.held, heap[o.held])]
    /\ UNCHANGED <<heap, disk, restVars>>

\* set: the caller's object becomes the cached one.
set_call(th, taxonomy, index) ==
    /\ ops[th].pc = "idle"
    /\ heap' = Append(heap, index)
    /\ cacheAt' = [cacheAt EXCEPT ![taxonomy] = Len(heap')]
    /\ cache' = CacheView(heap', cacheAt')
    /\ ops' = [ops EXCEPT ![th] = Return([IdleOp EXCEPT !.op = "set",
                     !.taxonomy = taxonomy, !.index = index], 0, NoIndex, None)]
    /\ UNCHANGED <<disk, restVars>>

remove_call(th, taxonomy, from_disk) ==
    LET o == IndexCache_remove(taxonomy, from_disk) IN
    /\ ops[th].pc = "idle"
    /\ cacheAt' = [cacheAt EXCEPT ![taxonomy] = 0]
    /\ cache' = CacheView(heap, cacheAt')
    /\ disk' = o.disk
    /\ ops' = [ops EXCEPT ![th] = Return([IdleOp EXCEPT !.op = "remove",
                     !.taxonomy = taxonomy, !.from_disk = from_disk], 0, NoIndex,
                     IF o.removed THEN "True" ELSE "False")]
    /\ UNCHANGED <<heap, restVars>>

\* update, lines 150-162: the delta index is merged into the object the get
\* returned, in place: every holder of that reference sees the new documents.
update_merge(th) ==
    LET o == ops[th]
        merged == UpdateMerge(heap[o.held], o.new_docs, o.embeddings)
    IN
    /\ o.pc = "merge"
    /\ IF o.new_docs = <<>> \/ o.embeddings.dim # heap[o.held].d
       THEN /\ ops' = [ops EXCEPT ![th] = Return(o, 0, NoIndex,
                          IF o.new_docs = <<>> THEN "IndexError" ELSE "AssertionError")]
            /\ UNCHANGED <<heap, cache>>
       ELSE /\ Len(merged.docs) <= MaxDocs
            /\ heap' = [heap EXCEPT ![o.held] = merged]
            /\ cache' = CacheView(heap', cacheAt)
            /\ ops' = [ops EXCEPT ![th].pc = "assign"]
    /\ UNCHANGED <<cacheAt, disk, restVars>>

\* update, line 165: self._cache[taxonomy] = existing_index
update_store(th) ==
    LET o == ops[th] IN
    /\ o.pc = "assign"
    /\ cacheAt' = [cacheAt EXCEPT ![o.taxonomy] = o.held]
    /\ cache' = CacheView(heap, cacheAt')
    /\ ops' = [ops EXCEPT ![th].pc = "save"]
    /\ UNCHANGED <<heap, disk, restVars>>

\* update, line 166, self.save(taxonomy): the index to write is looked up in
\* the cache again (ValueError without one); mkdir; save_local starts to
\* write index.faiss into the directory of the taxonomy itself.
save_faiss(th) ==
    LET o == ops[th]
        t == o.taxonomy
    IN
    /\ o.pc = "save"
    /\ IF cacheAt[t] = 0
       THEN /\ ops' = [ops EXCEPT ![th] = Return(o, 0, NoIndex, "ValueError")]
            /\ UNCHANGED disk
       ELSE /\ disk' = [disk EXCEPT ![t] = Written(@, heap[cacheAt[t]], "index.faiss")]
            /\ ops' = [ops EXCEPT ![th] = [o EXCEPT !.pc = "pkl", !.index = heap[cacheAt[t]],
                                                    !.before = disk[t]]]
    /\ UNCHANGED <<heap, cacheAt, cache, restVars>>

\* save_local writes index.pkl and returns; update returns existing_index.
save_pkl(th) ==
    LET o == ops[th] IN
    /\ o.pc = "pkl"
    /\ disk' = [disk EXCEPT ![o.taxonomy] = Written(@, o.index, "all")]
    /\ ops' = [ops EXCEPT ![th] = Return(o, o.held, heap[o.held], None)]
    /\ UNCHANGED <<heap, cacheAt, cache, restVars>>

\* An index a caller sets, and the document an update adds.
SetIndex == [d |-> 2, docs |-> <<Doc(3, 1, [id |-> 1, dim |-> 2])>>,
             emb |-> [id |-> 1, dim |-> 2]]
OneDoc   == <<[text |-> 2, tag |-> 7, ref |-> 2]>>

\* The index of brsr is on disk and start-up has warmed it into the cache.
StartCache == load_local(StoredIndex, [id |-> 1, dim |-> 2])
StartDisk  == [kind |-> "ok", index |-> StoredIndex]

InitShared ==
    /\ heap = <<StartCache>>
    /\ cacheAt = [t \in Names |-> IF t = "brsr" THEN 1 ELSE 0]
    /\ cache = CacheView(heap, cacheAt)
    /\ disk = [t \in Names |-> IF t = "brsr" THEN StartDisk ELSE AbsentDir]
    /\ ops = [th \in Threads |-> IdleOp]
    /\ rel = IdleRel
    /\ runtime = EmptyRuntime
    /\ ret = NoCall
    /\ InitJobTable(0) /\ InitTables(SmallTable, 0, 0)
    /\ InitRegistry /\ InitModels /\ InitOut

NextShared ==
    \/ \E th \in Threads : get_begin(th, "brsr", embedder)
    \/ \E th \in Threads : update_begin(th, "brsr", OneDoc, embedder)
    \/ \E th \in Threads : load_begin(th, "brsr", embedder)
    \/ \E th \in Threads : load_read(th)
    \/ \E th \in Threads : load_store(th)
    \/ \E th \in Threads : set_call(th, "brsr", SetIndex)
    \/ \E th \in Threads, from_disk \in BOOLEAN : remove_call(th, "brsr", from_disk)
    \/ \E th \in Threads : update_merge(th)
    \/ \E th \in Threads : update_store(th)
    \/ \E th \in Threads : save_faiss(th)
    \/ \E th \in Threads : save_pkl(th)

SpecShared == InitShared /\ [][NextShared]_vars

----------------------------------------------------------------------------
(* reload_models beside other requests: the steps of
   copy_active_models_to_local_runtime_and_load and of the warm-up *)

\* Lines 83-106 and 72-76: the current setting is read, the model directories
\* are copied and both models are constructed from the copies.
reload_copy ==
    LET setting == get_current(settings)
        embedder_id == setting.active_embedder_id
        reranker_id == setting.active_reranker_id
    IN
    /\ rel.pc = "idle"
    /\ LiveRow(embedders, embedder_id) /\ LiveRow(rerankers, reranker_id)
    /\ runtime' = [active_embedder |-> copy_dir(embedder_id, runtime.active_embedder),
                   active_reranker |-> copy_dir(reranker_id, runtime.active_reranker)]
    /\ rel' = [pc |-> "embedder",
               embedder |-> [id |-> runtime'.active_embedder,
                             dim |-> embedders[runtime'.active_embedder].dim],
               reranker |-> [id |-> runtime'.active_reranker,
                             normalize_method |-> "softmax"]]
    /\ UNCHANGED <<heap, cacheAt, ops, jobVars, dbVars, cacheVars, regVars, modelVars, outVars>>

\* Line 78: self.embedder = SentenceTransformerEmbedder(embedder_model)
reload_set_embedder ==
    /\ rel.pc = "embedder"
    /\ embedder' = rel.embedder
    /\ rel' = [rel EXCEPT !.pc = "reranker"]
    /\ UNCHANGED <<heap, cacheAt, ops, runtime, reranker, embedDim, jobVars, dbVars, cacheVars,
                   modelVars, outVars>>

\* Line 79: self.reranker = CrossEncoderReranker(reranker_model)
reload_set_reranker ==
    /\ rel.pc = "reranker"
    /\ reranker' = rel.reranker
    /\ rel' = [rel EXCEPT !.pc = "warm"]
    /\ UNCHANGED <<heap, cacheAt, ops, runtime, embedder, embedDim, jobVars, dbVars, cacheVars,
                   modelVars, outVars>>

\* api/v1/models.py line 119: vectorstore.warm_all_disk_indices(registry)
reload_warm ==
    /\ rel.pc = "warm"
    /\ cache' = warm_all_disk_indices(embedder)
    /\ rel' = IdleRel
    /\ UNCHANGED <<heap, cacheAt, ops, runtime, disk, ret, jobVars, dbVars, regVars, modelVars,
                   outVars>>

ReloadSteps ==
    \/ reload_copy
    \/ reload_set_embedder
    \/ reload_set_reranker
    \/ reload_warm

\* Queries beside a reload. Start-up has loaded the active pair and warmed the
\* directories, or it has failed and left the registry and the cache empty.
InitReload ==
    /\ disk = [t \in Names |->
                 IF t = "brsr" THEN [kind |-> "ok", index |-> BrsrFiles]
                 ELSE IF t = "esg" THEN [kind |-> "ok", index |-> EsgFiles]
                 ELSE AbsentDir]
    /\ \E started \in BOOLEAN :
          /\ embedder = IF started THEN [id |-> 1, dim |-> 2] ELSE NoEmbedder
          /\ reranker = IF started THEN [id |-> 1, normalize_method |-> "softmax"]
                        ELSE NoReranker
          /\ cache = [t \in Names |->
                        IF started /\ disk[t].kind = "ok"
                        THEN load_local(disk[t].index, embedder) ELSE NoIndex]
          /\ runtime = IF started THEN [active_embedder |-> 1, active_reranker |-> 1]
                       ELSE EmptyRuntime
    /\ embedDim = 0
    /\ ret = NoCall
    /\ InitModels /\ InitOut /\ InitThreads
    /\ InitJobTable(0) /\ InitTables(SmallTable, 0, 0)

NextReload ==
    \/ \E r \in Requests, predict \in Predictions : query(r, predict)
    \/ \E embedder_id \in 1..2, reranker_id \in 1..2 :
          update_active_models(embedder_id, reranker_id)
    \/ ReloadSteps

SpecReload == InitReload /\ [][NextReload]_vars

\* A build beside a reload. Embedder 3 is a fine-tuned model of the same
\* dimension as embedder 1.
InitRebuild ==
    /\ InitJobTable(MaxBuilds) /\ InitTables(LargeTable, 0, 0)
    /\ InitEmptyStore /\ InitRegistry /\ InitOut /\ InitIdle
    /\ embedders = <<[dim |-> 2, live |-> TRUE], [dim |-> 3, live |-> TRUE],
                     [dim |-> 2, live |-> TRUE]>>
    /\ rerankers = <<[normalize_method |-> "softmax", live |-> TRUE]>>
    /\ settings = <<[active_embedder_id |-> 1, active_reranker_id |-> 1]>>
    /\ del = [th \in Threads |-> IdleDel]

NextRebuild ==
    \/ BuildSteps
    \/ \E embedder_id \in 2..3 : update_active_models(embedder_id, 1)
    \/ ReloadSteps

SpecRebuild == InitRebuild /\ [][NextRebuild]_vars

\* A build beside the deletion of taxonomies.
InitDelete ==
    /\ InitJobTable(MaxBuilds)
    /\ \E nBrsr \in {SmallTable, BATCH + 1} : InitTables(nBrsr, 1, 0)
    /\ InitEmptyStore /\ InitRegistry /\ InitModels /\ InitOut /\ InitIdle

NextDelete ==
    \/ BuildSteps
    \/ \E t \in Taxonomies : delete_taxonomy(t)

SpecDelete == InitDelete /\ [][NextDelete]_vars

----------------------------------------------------------------------------
(* Claims about the index store and the registry *)

\* The index of taxonomy t is in neither tier, or only as files that do not
\* deserialize.
Unobtainable(t) == cache[t] = NoIndex /\ disk[t].kind # "ok"

\* C11: a query, with the embedder loaded, of a taxonomy whose index cannot be
\* obtained ends in INDEX_NOT_FOUND with no results, and leaves the cache
\* without an entry for the taxonomy and the disk as it was.
C11_UnobtainableIsIndexNotFound ==
    [][\A r \in Requests, predict \in Predictions :
          (embedder # NoEmbedder /\ Unobtainable(r.taxonomy) /\ query(r, predict))
          => /\ qres'.kind = "INDEX_NOT_FOUND"
             /\ qres'.results = <<>>
             /\ cache'[r.taxonomy] = NoIndex
             /\ disk' = disk]_vars

\* A query of the taxonomy whose directory does not deserialize has failed.
C11_Witness ==
    /\ qres.taxonomy = "ghost" /\ qres.kind = "INDEX_NOT_FOUND"
    /\ disk["ghost"].kind = "corrupt" /\ cache["ghost"] = NoIndex

\* C12: remove(taxonomy, from_disk) evicts the cache entry of the taxonomy,
\* deletes its directory only when from_disk is true, leaves the entries and
\* directories of all other taxonomies as they were, and returns True exactly
\* when a cache entry or a directory was removed.
C12_RemoveFrame ==
    [][\A t \in Taxonomies, from_disk \in BOOLEAN :
          remove(t, from_disk)
          => /\ cache'[t] = NoIndex
             /\ disk'[t] = IF from_disk THEN AbsentDir ELSE disk[t]
             /\ \A u \in Names \ {t} : cache'[u] = cache[u] /\ disk'[u] = disk[u]
             /\ (ret'.error = "True")
                  <=> (cache[t] # NoIndex \/ (from_disk /\ disk[t].kind # "absent"))]_vars

\* remove("brsr") without from_disk has evicted a cached index and kept the
\* directory, while the index of esg is still cached.
C12_Witness ==
    /\ ret.op = "remove" /\ ret.taxonomy = "brsr" /\ ret.error = "True"
    /\ cache["brsr"] = NoIndex /\ disk["brsr"].kind = "ok"
    /\ cache["esg"] # NoIndex

\* The cached index of taxonomy t, if any, is what its directory holds.
Persisted(t) ==
    cache[t] # NoIndex => (disk[t].kind = "ok" /\ disk[t].index = save_local(cache[t]))

\* C13: the cache is write-through for update: an update of a taxonomy whose
\* cached index is the persisted one leaves the cached index equal to the
\* persisted one, also when the disk write fails.
C13_WriteThrough ==
    [][\A t \in Taxonomies :
          (ret'.op = "update" /\ ret'.taxonomy = t /\ Persisted(t)) => Persisted(t)']_vars

\* What a FAISS.load_local of a directory gives: its files, or a failure.
ReadOf(dir) ==
    IF dir.kind = "ok" THEN [loaded |-> TRUE, files |-> dir.index]
    ELSE [loaded |-> FALSE, files |-> NoFiles]

\* C14: a thread that reads the directory of a taxonomy while another thread
\* is inside the save of that taxonomy reads the index that was there before
\* the save, or the index being saved.
C14_LoaderSeesOldOrNew ==
    [][\A r \in Threads, w \in Threads :
          (/\ ops[w].pc = "pkl" /\ ops[r].pc = "load" /\ ops'[r].pc # "load"
           /\ ops[r].taxonomy = ops[w].taxonomy
           /\ (ops[r].force_reload \/ cacheAt[ops[r].taxonomy] = 0))
          => ReadOf(disk[ops[r].taxonomy])
                \in {ReadOf(ops[w].before),
                     [loaded |-> TRUE, files |-> save_local(ops[w].index)]}]_vars

\* One call of the index cache run alone on the cache entry c and the
\* directory d of its taxonomy: the entry and directory after it, and what
\* it returns or raises.
SeqCall(o, c, d) ==
    LET canLoad == o.embeddings # NoEmbedder /\ d.kind = "ok"
        got == IF c # NoIndex THEN c
               ELSE IF canLoad THEN load_local(d.index, o.embeddings) ELSE NoIndex
        merged == UpdateMerge(got, o.new_docs, o.embeddings)
    IN
    CASE o.op = "get" -> [c |-> got, d |-> d, result |-> got, error |-> None]
      [] o.op = "load" ->
            IF d.kind = "ok"
            THEN [c |-> load_local(d.index, o.embeddings), d |-> d,
                  result |-> load_local(d.index, o.embeddings), error |-> None]
            ELSE [c |-> c, d |-> d, result |-> NoIndex, error |-> "INDEX_NOT_FOUND"]
      [] o.op = "set" -> [c |-> o.index, d |-> d, result |-> NoIndex, error |-> None]
      [] o.op = "remove" ->
            [c |-> NoIndex, d |-> IF o.from_disk THEN AbsentDir ELSE d,
             result |-> NoIndex,
             error |-> IF c # NoIndex \/ (o.from_disk /\ d.kind # "absent")
                       THEN "True" ELSE "False"]
      [] o.op = "update" ->
            IF got = NoIndex
            THEN [c |-> c, d |-> d, result |-> NoIndex, error |-> "INDEX_NOT_FOUND"]
            ELSE IF o.new_docs = <<>> \/ o.embeddings.dim # got.d
            THEN [c |-> got, d |-> d, result |-> NoIndex,
                  error |-> IF o.new_docs = <<>> THEN "IndexError" ELSE "AssertionError"]
            ELSE [c |-> merged, d |-> [kind |-> "ok", index |-> save_local(merged)],
                  result |-> merged, error |-> None]
      [] OTHER -> [c |-> c, d |-> d, result |-> NoIndex, error |-> None]

\* The calls of the threads run one after another in the given order, from
\* the initial cache entry and directory: the outcome of the i-th of them.
RECURSIVE SeqRun(_, _)
SeqRun(order, i) ==
    IF i = 0 THEN [c |-> StartCache, d |-> StartDisk, result |-> NoIndex, error |-> None]
    ELSE LET before == SeqRun(order, i - 1)
         IN  SeqCall(ops[order[i]], before.c, before.d)

\* C15: when every thread has made one get, set, remove or update call on the
\* same taxonomy and all calls have returned, the cache entry, the directory
\* and each call's result are those of the calls run one after another in
\* some order.
C15_Linearizable ==
    (\A th \in Threads :
        ops[th].pc = "done" /\ ops[th].op \in {"get", "set", "remove", "update"})
    => \E order \in Permutations(Threads) :
          /\ SeqRun(order, MaxThreads).c = cache["brsr"]
          /\ SeqRun(order, MaxThreads).d = disk["brsr"]
          /\ \A i \in Threads :
                /\ SeqRun(order, i).result = ops[order[i]].result
                /\ SeqRun(order, i).error = ops[order[i]].error

\* C16: the object behind a reference that get or load has returned to a
\* thread never changes.
C16_ReferenceIsSnapshot ==
    [][\A th \in Threads :
          (ops[th].op \in {"get", "load"} /\ ops[th].pc = "done" /\ ops[th].held # 0)
          => heap'[ops[th].held] = heap[ops[th].held]]_vars

\* C17: the registry always holds a pair of backends that one setting made
\* active together, or no backend at all.
C17_PairSwappedAtOnce ==
    \/ embedder = NoEmbedder /\ reranker = NoReranker
    \/ \E i \in DOMAIN settings :
          /\ embedder.id = settings[i].active_embedder_id
          /\ reranker.id = settings[i].active_reranker_id

\* The vectors of index vs have its dimension and come from one embedder.
OneBackend(vs) ==
    \A i \in 1..Len(vs.docs) :
       /\ Len(vs.docs[i].vec) = vs.d
       /\ vs.docs[i].vec[vs.d] = vs.docs[1].vec[vs.d]

\* C19: an index a build has published holds vectors of one dimension and of
\* one embedder.
C19_OneEmbedderPerIndex ==
    \A t \in Taxonomies : cache[t] # NoIndex => OneBackend(cache[t])

\* C20: a query without an embedder, and a query with rerank=true without a
\* reranker, end in MODEL_NOT_LOADED with no results.
C20_ModelNotLoaded ==
    [][\A r \in Requests, predict \in Predictions :
          (/\ embedder = NoEmbedder \/ (r.rerank /\ reranker = NoReranker)
           /\ query(r, predict))
          => (qres'.kind = "MODEL_NOT_LOADED" /\ qres'.results = <<>>)]_vars

\* No request is inside the build_index endpoint for taxonomy t and every
\* background build of t has ended.
NoBuildInFlight(t) ==
    /\ \A th \in Threads : req[th].pc # "idle" => req[th].taxonomy # t
    /\ \A j \in DOMAIN tasks : tasks[j].target = t => tasks[j].pc = "end"

\* C18: once a taxonomy is deleted and no build of it is in flight, it has
\* no entry in the cache and no directory on disk.
C18_DeletedTaxonomyHasNoIndex ==
    \A t \in Taxonomies :
       (t \notin known /\ NoBuildInFlight(t))
       => (cache[t] = NoIndex /\ disk[t].kind = "absent")

----------------------------------------------------------------------------
(* Claims about the build endpoint and the build pipeline *)

\* The jobs of a taxonomy that are queued or running.
QueuedOrRunning(taxonomy) ==
    {j \in DOMAIN jobs : jobs[j].taxonomy = taxonomy
                          /\ jobs[j].status \in {"queued", "running"}}

\* C21: a build_index request that finds a queued or running job of its
\* taxonomy creates no job and no task, and answers with the id and status of
\* such a job; a request that finds none goes on to create one job, queued
\* with progress, total and done 0, and one background task for it.
C21_DuplicateBuildRefused ==
    [][/\ \A th \in Threads, taxonomy \in Names :
            (build_index_check(th, taxonomy) /\ embedder # NoEmbedder)
            => IF QueuedOrRunning(taxonomy) # {}
               THEN /\ req'[th].pc = "idle"
                    /\ req'[th].resp.job_id \in QueuedOrRunning(taxonomy)
                    /\ req'[th].resp.status = jobs[req'[th].resp.job_id].status
                    /\ jobs' = jobs /\ tasks' = tasks
               ELSE /\ req'[th].pc = "insert" /\ req'[th].taxonomy = taxonomy
                    /\ jobs' = jobs /\ tasks' = tasks
       /\ \A th \in Threads :
            build_index_set(th)
            => /\ Len(jobs') = Len(jobs) + 1 /\ Len(tasks') = Len(tasks) + 1
               /\ SubSeq(jobs', 1, Len(jobs)) = jobs
               /\ LET new == jobs'[Len(jobs')] IN
                  /\ new.status = "queued" /\ new.taxonomy = req[th].taxonomy
                  /\ new.progress = 0 /\ new.total = 0 /\ new.done = 0
               /\ req'[th].resp.job_id = Len(jobs')]_vars

\* A request for a taxonomy whose build was already under way was answered
\* with the id of that job, and no second job exists.
C21_Witness ==
    \E th \in Threads :
       /\ req[th].pc = "idle"
       /\ req[th].resp.message = "Build already running for this taxonomy"
       /\ req[th].resp.job_id = 1 /\ Len(jobs) = 1

\* The messages build_index_async writes into the error field of a job.
PipelineMessages ==
    {"No documents were indexed", "Unexpected error during indexing"}
    \cup {"Taxonomy '" \o t \o "' not found" : t \in Names}
    \cup {"No entries found for taxonomy '" \o t \o "'" : t \in Names}

\* C22: whenever a build task has ended, it has returned (it did not raise),
\* and its job is completed or is failed with one of the fixed messages of
\* the pipeline.
C22_ExceptionsCaught ==
    \A j \in DOMAIN tasks :
       (IsBuild(j) /\ tasks[j].pc \in {"end", "raised"})
       => /\ tasks[j].pc = "end"
          /\ jobs[j].status \in {"completed", "failed"}
          /\ jobs[j].status = "failed" => jobs[j].error \in PipelineMessages

\* The taxonomy is unknown or has no entry.
NothingToIndex(taxonomy) ==
    IF taxonomy \in known THEN entries[taxonomy] = <<>> ELSE TRUE

\* C23: the first step of a build whose taxonomy is unknown or has no entry
\* takes the job from queued to failed with an error that names the taxonomy
\* and ends the task, so no page is read or embedded; the cache and the disk
\* are as before; and such a job is never running or completed.
C23_NothingToIndexFails ==
    [][/\ \A j \in DOMAIN tasks :
            (IsBuild(j) /\ NothingToIndex(tasks[j].target) /\ build_index_async_start(j))
            => /\ jobs[j].status = "queued"
               /\ jobs'[j].status = "failed"
               /\ jobs'[j].error =
                     (IF tasks[j].target \notin known
                      THEN "Taxonomy '" \o tasks[j].target \o "' not found"
                      ELSE "No entries found for taxonomy '" \o tasks[j].target \o "'")
               /\ tasks'[j].pc = "end" /\ tasks'[j].vs = NoIndex
               /\ cache' = cache /\ disk' = disk
       /\ \A j \in DOMAIN tasks' :
            (/\ tasks'[j].kind = "build"
             /\ IF tasks'[j].target \in known'
                THEN entries'[tasks'[j].target] = <<>> ELSE TRUE)
            => jobs'[j].status \in {"queued", "failed"}]_vars

\* A build of the unknown taxonomy and a build of the empty taxonomy have both
\* failed with their messages.
C23_Witness ==
    /\ \E j \in DOMAIN jobs : /\ jobs[j].status = "failed"
                              /\ jobs[j].error = "Taxonomy 'ghost' not found"
    /\ \E j \in DOMAIN jobs : /\ jobs[j].status = "failed"
                              /\ jobs[j].error = "No entries found for taxonomy 'esg'"

\* The tags of the documents of an index, in the order of the index.
TagsOf(vs) == [i \in 1..Len(vs.docs) |-> vs.docs[i].tag]

\* C24: the index a completed build has built holds every entry of its
\* taxonomy exactly once: as many documents as entries, and every entry among
\* them.
C24_EveryEntryOnce ==
    \A j \in DOMAIN tasks :
       (IsBuild(j) /\ jobs[j].status = "completed")
       => LET rows == entries[tasks[j].target]
              tags == TagsOf(tasks[j].vs)
          IN  /\ Len(tags) = Len(rows)
              /\ \A i \in 1..Len(rows) : \E k \in 1..Len(tags) : tags[k] = rows[i].id

\* The directory of the taxonomy holds the files of this index.
OnDisk(taxonomy, vs) ==
    disk[taxonomy].kind = "ok" /\ disk[taxonomy].index = save_local(vs)

\* C25: a build writes the disk while its job is running and the cache still
\* has its old entry, writes the cache when the disk holds the new index, and
\* marks the job completed when both hold it; and every completed job's index
\* is on disk and is the cache entry of its taxonomy.
C25_PersistPublishComplete ==
    [][/\ \A j \in DOMAIN tasks :
            /\ build_index_async_persist(j)
               => /\ jobs'[j].status = "running" /\ cache' = cache
                  /\ disk'[tasks[j].target] = [kind |-> "ok", index |-> save_local(tasks[j].vs)]
            /\ build_index_async_publish(j)
               => /\ OnDisk(tasks[j].target, tasks[j].vs) /\ disk' = disk
                  /\ jobs'[j].status = "running"
                  /\ cache'[tasks[j].target] = tasks[j].vs
            /\ build_index_async_complete(j)
               => /\ OnDisk(tasks[j].target, tasks[j].vs)
                  /\ cache[tasks[j].target] = tasks[j].vs
                  /\ disk' = disk /\ cache' = cache
                  /\ jobs[j].status = "running" /\ jobs'[j].status = "completed"
       /\ \A j \in DOMAIN tasks' :
            (tasks'[j].kind = "build" /\ jobs'[j].status = "completed")
            => /\ cache'[tasks'[j].target] = tasks'[j].vs
               /\ disk'[tasks'[j].target] =
                     [kind |-> "ok", index |-> save_local(tasks'[j].vs)]]_vars

\* A build of more than two batches is completed, with its index on disk and
\* in the cache.
C25_Witness ==
    \E j \in DOMAIN tasks :
       /\ IsBuild(j) /\ jobs[j].status = "completed" /\ jobs[j].done > 2 * BATCH
       /\ OnDisk(tasks[j].target, tasks[j].vs)
       /\ cache[tasks[j].target] = tasks[j].vs

\* C26: a reload that finds files in the runtime directories leaves both
\* directories as they are and loads the models whose files they hold.
C26_CopyOnlyIntoEmpty ==
    [][(/\ runtime.active_embedder # 0 /\ runtime.active_reranker # 0
        /\ reload_copy)
       => /\ runtime' = runtime
          /\ rel'.embedder.id = runtime.active_embedder
          /\ rel'.reranker.id = runtime.active_reranker]_vars

\* C27: every build job is in the end completed or failed.
C27_EveryJobEnds ==
    \A j \in 1..MaxRequests :
       (j \in DOMAIN jobs)
       ~> (j \in DOMAIN jobs /\ jobs[j].status \in {"completed", "failed"})

\* C28: the step that takes a build job to failed is a step of a task that
\* has not yet reached its cache write, and it leaves the cache as it is; the
\* only step of a build task that changes the cache is the cache write of
\* line 91, after which the task can only mark its job completed.
C28_FailedBuildKeepsCache ==
    [][\A j \in DOMAIN tasks :
          (tasks[j].kind = "build" /\ tasks'[j] # tasks[j])
          => /\ (jobs'[j].status = "failed" /\ jobs[j].status # "failed")
                => /\ tasks[j].pc \in {"start", "loop", "persist"}
                   /\ tasks'[j].pc = "end"
                   /\ cache' = cache
             /\ cache' # cache
                => /\ tasks[j].pc = "publish" /\ tasks'[j].pc = "complete"
                   /\ jobs'[j].status = "running"
             /\ tasks[j].pc = "complete"
                => /\ jobs'[j].status = "completed" /\ tasks'[j].pc = "end"
             /\ tasks[j].pc # "end"]_vars

\* A rebuild of a taxonomy has failed while writing the disk, and the cache
\* still holds the index of the build before it.
C28_Witness ==
    \E j \in DOMAIN tasks, i \in DOMAIN tasks :
       /\ IsBuild(j) /\ jobs[j].status = "failed"
       /\ jobs[j].error = "Unexpected error during indexing"
       /\ disk[tasks[j].target].kind = "corrupt"
       /\ IsBuild(i) /\ jobs[i].status = "completed" /\ tasks[i].target = tasks[j].target
       /\ cache[tasks[j].target] = tasks[i].vs

\* C29: every key get_stats reports in disk_keys satisfies exists_on_disk,
\* and the number it reports as disk_indices is the number of taxonomies for
\* which exists_on_disk is true.
C29_DiskKeysExist ==
    /\ \A t \in disk_indices : exists_on_disk(t)
    /\ Cardinality(disk_indices) = Cardinality({t \in DOMAIN disk : exists_on_disk(t)})

\* C30: a step of a build task changes no other job record and no other
\* task, and leaves the cache entry and the directory of every taxonomy but
\* its own as they are; and a completed build has counted and indexed the
\* entries of its own taxonomy, in their order, whatever the other builds did.
C30_BuildsDoNotInterfere ==
    [][\A j \in DOMAIN tasks :
          (tasks[j].kind = "build" /\ tasks'[j] # tasks[j])
          => /\ \A i \in DOMAIN jobs \ {j} : jobs'[i] = jobs[i] /\ tasks'[i] = tasks[i]
             /\ \A t \in Names \ {tasks[j].target} :
                   cache'[t] = cache[t] /\ disk'[t] = disk[t]
             /\ jobs'[j].taxonomy = tasks[j].target
             /\ jobs'[j].status = "completed"
                => LET rows == entries[tasks[j].target] IN
                   /\ jobs'[j].done = Len(rows) /\ jobs'[j].total = Len(rows)
                   /\ TagsOf(tasks'[j].vs) = [k \in 1..Len(rows) |-> rows[k].id]
                   /\ cache'[tasks[j].target].docs = tasks'[j].vs.docs]_vars

\* Builds of two taxonomies have both written the disk and are both about to
\* write the cache.
C30_Witness ==
    \E i \in DOMAIN tasks, j \in DOMAIN tasks :
       /\ IsBuild(i) /\ IsBuild(j) /\ tasks[i].target # tasks[j].target
       /\ tasks[i].pc = "publish" /\ tasks[j].pc = "publish"
       /\ Len(tasks[j].vs.docs) > BATCH

====
